---- MODULE Spec2Model ----
(***************************************************************************)
(* supplychain-guard: the security-findings pipeline.                      *)
(*   dependency-review  (retriever + malware classifier)                   *)
(*   check-ossf         (malicious name/version matcher)                   *)
(*   check-guarddog     (heuristic scan scheduler)                         *)
(*   pr-comment         (aggregator)                                       *)
(* Each program is a process over the artifact files of one working        *)
(* directory.                                                              *)
(***************************************************************************)
EXTENDS Integers, Sequences, FiniteSets, TLC

VARIABLES
  files,       \* artifact name -> Missing | Garbage | Json(data)
  token,       \* GITHUB_TOKEN is set
  envOk,       \* GITHUB_REPOSITORY and a base sha can be determined
  warnOnly,    \* dependency-review argv[4] = "true"
  upstream,    \* the comparison source: what it answers to each page request
  page,        \* getDependencyChanges: page
  allChanges,  \* getDependencyChanges: allChanges
  requests,    \* number of fetchJSON calls issued so far
  fetched,     \* history: records of the array pages received, arrival order
  changes,     \* the value getDependencyChanges resolved with
  rv_pc,       \* dependency-review: "off" | "start" | "awaiting" | "exited"
  rv_exit,     \* dependency-review exit status (-1 while running)
  rv_log,      \* dependency-review: set of messages logged
  corpus,      \* the malicious-package corpus under root/osv/malicious
  os_argv,     \* check-ossf: arguments [outWritable, extra]
  os_pc,       \* check-ossf: "off" | "start" | "exited"
  os_exit,     \* check-ossf exit status (-1 while running)
  os_log,      \* check-ossf: set of messages logged
  nameMatches, \* check-ossf: nameMatches
  exactMatches, \* check-ossf: exactMatches
  gd_fail,     \* check-guarddog argv[3] = "true"
  gd_installOk, \* "python3 -m pip install guarddog" succeeds
  gd_testEnv,  \* NODE_ENV is "test"
  scanner,     \* how the external scanner behaves in this run
  allScanTasks, \* check-guarddog: allScanTasks
  gd_i,        \* check-guarddog: loop variable i (0-based start of the batch)
  batchResults, \* results of the scans of the current batch so far
  inFlight,    \* number of scanner processes running now
  peakInFlight, \* history: most scanner processes at once in this batch
  batches,     \* history: the batches that have completed, in order
  allResults,  \* check-guarddog: allResults
  scanned,     \* history: the tasks the scanner was invoked for, in order
  gd_pc,       \* check-guarddog: "off" | "start" | "batch" | "exited"
  gd_exit,     \* check-guarddog exit status (-1 while running)
  gd_log,      \* check-guarddog: set of messages logged
  ag_enable,   \* pr-comment argv[2] = "true"
  ag_summary,  \* pr-comment: the summary data and overall status
  ag_summarised, \* pr-comment generated a summary
  ag_pc,       \* pr-comment: "off" | "start" | "exited"
  ag_exit,     \* pr-comment exit status (-1 while running)
  fi_present,  \* frozen-install: the files that exist in the working directory
  fi_packageJson, \* content of package.json: [parses, packageManager]
  fi_failing,  \* the external commands that end with a non-zero status
  fi_yarnVersion, \* what "yarn --version" prints
  fi_workdirOk, \* process.chdir(workdir) succeeds (or workdir is ".")
  fi_ignoreScripts, \* frozen-install argv[3], "true" by default
  detectedEcosystems, \* frozen-install: detectedEcosystems
  fi_next,     \* number of detected ecosystems validated so far
  allSucceeded, \* frozen-install: allSucceeded
  fi_validated, \* history: [name, success] of each validation, in order
  fi_pc,       \* frozen-install: "off" | "start" | "validating" | "exited"
  fi_exit,     \* frozen-install exit status (-1 while running)
  fi_log       \* frozen-install: set of messages logged

rvVars == <<token, envOk, warnOnly, upstream, page, allChanges, requests,
            fetched, changes, rv_pc, rv_exit, rv_log>>
osVars == <<corpus, os_argv, os_pc, os_exit, os_log, nameMatches, exactMatches>>
gdVars == <<gd_fail, gd_installOk, gd_testEnv, scanner, allScanTasks, gd_i,
            batchResults, inFlight, peakInFlight, batches, allResults, scanned,
            gd_pc, gd_exit, gd_log>>
agVars == <<ag_enable, ag_summary, ag_summarised, ag_pc, ag_exit>>
fiVars == <<fi_present, fi_packageJson, fi_failing, fi_yarnVersion, fi_workdirOk,
            fi_ignoreScripts, detectedEcosystems, fi_next, allSucceeded,
            fi_validated, fi_pc, fi_exit, fi_log>>
vars == <<files, rvVars, osVars, gdVars, agVars, fiVars>>

-----------------------------------------------------------------------------
(* Bounds of the model *)

MaxFullPages == 2
MaxSeed == 2
MaxChanged == 3

-----------------------------------------------------------------------------
(* Artifact files *)

ArtifactNames == {"changed.json", "malware-hits.json", "ossf.json", "guarddog.json"}
Missing == [kind |-> "missing"]
Garbage == [kind |-> "garbage"]
Json(d) == [kind |-> "json", data |-> d]
existsSync(fs, f) == fs[f].kind # "missing"
NoFiles == [f \in ArtifactNames |-> Missing]
writeFileSync(fs, f, d) == [fs EXCEPT ![f] = Json(d)]

-----------------------------------------------------------------------------
(* Strings: a JavaScript string is the sequence of its characters *)

StrTab ==
  "Malware: backdoor" :> << "M", "a", "l", "w", "a", "r", "e", ":", " ", "b", "a", "c", "k", "d", "o", "o", "r" >> @@
  "Package ships a backdoor" :> << "P", "a", "c", "k", "a", "g", "e", " ", "s", "h", "i", "p", "s", " ", "a", " ", "b", "a", "c", "k", "d", "o", "o", "r" >> @@
  "GHSA-aaaa" :> << "G", "H", "S", "A", "-", "a", "a", "a", "a" >> @@
  "Denial of service" :> << "D", "e", "n", "i", "a", "l", " ", "o", "f", " ", "s", "e", "r", "v", "i", "c", "e" >> @@
  "Regex backtracking" :> << "R", "e", "g", "e", "x", " ", "b", "a", "c", "k", "t", "r", "a", "c", "k", "i", "n", "g" >> @@
  "GHSA-bbbb" :> << "G", "H", "S", "A", "-", "b", "b", "b", "b" >> @@
  "Compromised release" :> << "C", "o", "m", "p", "r", "o", "m", "i", "s", "e", "d", " ", "r", "e", "l", "e", "a", "s", "e" >> @@
  "Contains MALWARE payload" :> << "C", "o", "n", "t", "a", "i", "n", "s", " ", "M", "A", "L", "W", "A", "R", "E", " ", "p", "a", "y", "l", "o", "a", "d" >> @@
  "GHSA-cccc" :> << "G", "H", "S", "A", "-", "c", "c", "c", "c" >> @@
  "Suspicious package" :> << "S", "u", "s", "p", "i", "c", "i", "o", "u", "s", " ", "p", "a", "c", "k", "a", "g", "e" >> @@
  "Flagged by registry" :> << "F", "l", "a", "g", "g", "e", "d", " ", "b", "y", " ", "r", "e", "g", "i", "s", "t", "r", "y" >> @@
  "GHSA-malware-dddd" :> << "G", "H", "S", "A", "-", "m", "a", "l", "w", "a", "r", "e", "-", "d", "d", "d", "d" >> @@
  "GHSA-MALWARE-eeee" :> << "G", "H", "S", "A", "-", "M", "A", "L", "W", "A", "R", "E", "-", "e", "e", "e", "e" >> @@
  "malware" :> << "m", "a", "l", "w", "a", "r", "e" >> @@
  "@types/" :> << "@", "t", "y", "p", "e", "s", "/" >> @@
  "" :> << >> @@
  "yarn@" :> << "y", "a", "r", "n", "@" >> @@
  "pnpm@" :> << "p", "n", "p", "m", "@" >> @@
  "yarn@3.6.0" :> << "y", "a", "r", "n", "@", "3", ".", "6", ".", "0" >> @@
  "pnpm@8.6.0" :> << "p", "n", "p", "m", "@", "8", ".", "6", ".", "0" >> @@
  "npm@9.8.0" :> << "n", "p", "m", "@", "9", ".", "8", ".", "0" >> @@
  "1." :> << "1", "." >> @@
  "1.22.19" :> << "1", ".", "2", "2", ".", "1", "9" >> @@
  "3.6.0" :> << "3", ".", "6", ".", "0" >> @@
  "@types/node" :> << "@", "t", "y", "p", "e", "s", "/", "n", "o", "d", "e" >> @@
  "types" :> << "t", "y", "p", "e", "s" >> @@
  "left-pad" :> << "l", "e", "f", "t", "-", "p", "a", "d" >> @@
  "requests" :> << "r", "e", "q", "u", "e", "s", "t", "s" >> @@
  "checkout" :> << "c", "h", "e", "c", "k", "o", "u", "t" >> @@
  "laravel" :> << "l", "a", "r", "a", "v", "e", "l" >> @@
  "evil-pkg" :> << "e", "v", "i", "l", "-", "p", "k", "g" >> @@
  "safe-pkg" :> << "s", "a", "f", "e", "-", "p", "k", "g" >>

Upper == << "A", "B", "C", "D", "E", "F", "G", "H", "I", "J", "K", "L", "M", "N", "O", "P", "Q", "R", "S", "T", "U", "V", "W", "X", "Y", "Z" >>
Lower == << "a", "b", "c", "d", "e", "f", "g", "h", "i", "j", "k", "l", "m", "n", "o", "p", "q", "r", "s", "t", "u", "v", "w", "x", "y", "z" >>

toLowerCaseChar(c) ==
  IF \E k \in 1..Len(Upper) : Upper[k] = c
  THEN Lower[CHOOSE k \in 1..Len(Upper) : Upper[k] = c]
  ELSE c

toLowerCase(s) == [i \in 1..Len(s) |-> toLowerCaseChar(s[i])]

includes(s, sub) ==
  \E i \in 0..(Len(s) - Len(sub)) : \A k \in 1..Len(sub) : s[i + k] = sub[k]

-----------------------------------------------------------------------------
(* The comparison source (GitHub dependency-graph compare endpoint) *)

Advisory(id, summary, description) ==
  [severity |-> "high",
   advisory |-> [ghsa_id |-> id, summary |-> summary, description |-> description]]

vBackdoor == Advisory("GHSA-aaaa", "Malware: backdoor", "Package ships a backdoor")
vDos      == Advisory("GHSA-bbbb", "Denial of service", "Regex backtracking")
vPayload  == Advisory("GHSA-cccc", "Compromised release", "Contains MALWARE payload")
vLabelled == Advisory("GHSA-malware-dddd", "Suspicious package", "Flagged by registry")
vUpperId  == Advisory("GHSA-MALWARE-eeee", "Suspicious package", "Flagged by registry")

VulnChoices ==
  << <<>>, <<vBackdoor>>, <<vDos>>, <<vDos, vBackdoor, vPayload>>,
     <<vLabelled, vDos>>, <<vUpperId>>, <<vPayload, vDos, vLabelled>>,
     <<vDos, vDos>> >>

RecNames == <<"left-pad", "evil-pkg", "requests">>
RecVersions == <<"1.0.0", "9.9.9">>
RecEcosystems == <<"npm", "pip">>
ChangeTypes == <<"added", "removed", "updated">>

\* The i-th record of the upstream comparison; seed varies the pattern.
\* Every 9th record of a hundred carries no vulnerabilities field at all.
UpstreamRecord(i, seed) ==
  LET base == [name        |-> RecNames[(i % 3) + 1],
               version     |-> RecVersions[((i \div 3) % 2) + 1],
               ecosystem   |-> RecEcosystems[((i \div 2) % 2) + 1],
               change_type |-> ChangeTypes[((i + seed) % 3) + 1],
               manifest    |-> "package-lock.json"]
  IN  IF (i % 100) < 8
      THEN [f \in DOMAIN base \cup {"vulnerabilities"} |->
              IF f = "vulnerabilities"
              THEN VulnChoices[((i + (i \div 100) + seed) % 8) + 1]
              ELSE base[f]]
      ELSE IF (i % 100) = 8 THEN base
      ELSE [f \in DOMAIN base \cup {"vulnerabilities"} |->
              IF f = "vulnerabilities" THEN <<>> ELSE base[f]]

perPage == 100
maxPages == 50

\* Number of records the source holds for page p.
PageSize(src, p) ==
  IF src.kind = "endless" THEN perPage
  ELSE IF src.total >= p * perPage THEN perPage
  ELSE IF src.total > (p - 1) * perPage THEN src.total - (p - 1) * perPage
  ELSE 0

PageRecords(src, p) ==
  [k \in 1..PageSize(src, p) |-> UpstreamRecord((p - 1) * perPage + k, src.seed)]

\* fetchJSON: "error" when the request fails or the status is not ok,
\* otherwise the parsed body, which is an array or some other JSON value.
fetchJSON(src, p) ==
  IF src.failAt = p THEN [kind |-> "error"]
  ELSE IF src.nonArrayAt = p THEN [kind |-> "object"]
  ELSE [kind |-> "array", records |-> PageRecords(src, p)]

-----------------------------------------------------------------------------
(* dependency-review: getDependencyChanges and checkMalwareVulnerabilities *)

tokenMissing_never(tok) == FALSE

\* "if (!token)" at module start.
tokenMissing(tok) == ~tok

reachedEnd_emptyOnly(response) == Len(response) = 0

\* "response.length < perPage": fewer results than requested ends the loop.
reachedEnd(response) == Len(response) < perPage

pageLimitReached_offByOne(p) == p > maxPages + 1

\* "page > 50": the safety limit, tested after page++.
pageLimitReached(p) == p > maxPages

keepChange(dep) == dep.change_type = "added" \/ dep.change_type = "updated"

toDependencyChange(dep) ==
  [name            |-> dep.name,
   version         |-> dep.version,
   ecosystem       |-> dep.ecosystem,
   changeType      |-> dep.change_type,
   vulnerabilities |-> IF "vulnerabilities" \in DOMAIN dep
                       THEN dep.vulnerabilities ELSE <<>>]

filterAndMap(all) ==
  LET kept == SelectSeq(all, keepChange)
  IN  [i \in 1..Len(kept) |-> toDependencyChange(kept[i])]

isMalwareVuln_caseSensitive(vuln) ==
  \/ includes(toLowerCase(StrTab[vuln.advisory.summary]), StrTab["malware"])
  \/ includes(StrTab[vuln.advisory.description], StrTab["malware"])
  \/ includes(StrTab[vuln.advisory.ghsa_id], StrTab["malware"])

isMalwareVuln(vuln) ==
  \/ includes(toLowerCase(StrTab[vuln.advisory.summary]), StrTab["malware"])
  \/ includes(toLowerCase(StrTab[vuln.advisory.description]), StrTab["malware"])
  \/ includes(StrTab[vuln.advisory.ghsa_id], StrTab["malware"])

malwareHitOf(change) ==
  [name            |-> change.name,
   version         |-> change.version,
   vulnerabilities |-> SelectSeq(change.vulnerabilities, isMalwareVuln)]

hasMalwareVulns(change) == Len(SelectSeq(change.vulnerabilities, isMalwareVuln)) > 0

checkMalwareVulnerabilities(chs) ==
  LET hit == SelectSeq(chs, hasMalwareVulns)
  IN  [i \in 1..Len(hit) |-> malwareHitOf(hit[i])]

changedDepsOf(chs) ==
  [i \in 1..Len(chs) |->
     [name |-> chs[i].name, version |-> chs[i].version, ecosystem |-> chs[i].ecosystem]]

reviewExitCode_ignoresWarnOnly(malwareHits, warn) ==
  IF Len(malwareHits) > 0 THEN 1 ELSE 0

\* "if (malwareHits.length > 0) { if (warnOnly) warn else process.exit(1) }";
\* falling off the end of main ends the process with status 0.
reviewExitCode(malwareHits, warn) ==
  IF Len(malwareHits) > 0 /\ ~warn THEN 1 ELSE 0

\* main's catch block: the error is logged; warn-only continues (the process
\* then ends with status 0), otherwise process.exit(1).
RvMainCatch(logged) ==
  /\ rv_pc' = "exited"
  /\ rv_log' = rv_log \cup logged \cup {"Error during dependency review"}
                 \cup (IF warnOnly THEN {"continuing due to warn-only mode"} ELSE {})
  /\ rv_exit' = IF warnOnly THEN 0 ELSE 1

\* The rest of main once getDependencyChanges has resolved with chs.
RvMainRest(chs, logged) ==
  LET malwareHits == checkMalwareVulnerabilities(chs)
  IN  /\ changes' = chs
      /\ files' = writeFileSync(writeFileSync(files, "changed.json", changedDepsOf(chs)),
                                "malware-hits.json", malwareHits)
      /\ rv_pc' = "exited"
      /\ rv_log' = rv_log \cup logged \cup
                     (IF Len(malwareHits) > 0
                      THEN {"Malware vulnerabilities detected"}
                      ELSE {"No malware vulnerabilities detected"})
      /\ rv_exit' = reviewExitCode(malwareHits, warnOnly)

\* Module start: the token check, then main up to the first request.
RvStart ==
  /\ UNCHANGED <<osVars, gdVars, agVars, fiVars>>
  /\ rv_pc = "start"
  /\ IF tokenMissing(token)
     THEN /\ rv_pc' = "exited"
          /\ rv_exit' = 1
          /\ rv_log' = rv_log \cup {"GITHUB_TOKEN is required"}
          /\ UNCHANGED <<page, allChanges, requests, files>>
     ELSE IF ~envOk
     THEN /\ RvMainCatch({})
          /\ UNCHANGED <<page, allChanges, requests, files>>
     ELSE /\ rv_pc' = "awaiting"
          /\ page' = 1
          /\ allChanges' = <<>>
          /\ requests' = requests + 1
          /\ UNCHANGED <<rv_exit, rv_log, files>>
  /\ UNCHANGED <<token, envOk, warnOnly, upstream, fetched, changes>>

\* The pending request fails: fetchJSON throws, getDependencyChanges logs and
\* rethrows, main's catch decides the exit status.
RvFetchFailed ==
  /\ UNCHANGED <<osVars, gdVars, agVars, fiVars>>
  /\ rv_pc = "awaiting"
  /\ fetchJSON(upstream, page).kind = "error"
  /\ RvMainCatch({"Error fetching dependency changes"})
  /\ UNCHANGED <<token, envOk, warnOnly, upstream, page, allChanges, requests,
                 fetched, changes, files>>

\* The response is not an array: allChanges is replaced by [] and the loop ends.
RvNonArray ==
  /\ UNCHANGED <<osVars, gdVars, agVars, fiVars>>
  /\ rv_pc = "awaiting"
  /\ fetchJSON(upstream, page).kind = "object"
  /\ allChanges' = <<>>
  /\ RvMainRest(filterAndMap(<<>>), {})
  /\ UNCHANGED <<token, envOk, warnOnly, upstream, page, requests, fetched>>

\* A page arrives: it is appended; a short page or the page limit ends the
\* loop, otherwise the next page is requested.
RvPage ==
  /\ UNCHANGED <<osVars, gdVars, agVars, fiVars>>
  /\ rv_pc = "awaiting"
  /\ fetchJSON(upstream, page).kind = "array"
  /\ LET response == fetchJSON(upstream, page).records
         all == allChanges \o response
     IN  /\ allChanges' = all
         /\ fetched' = fetched \o response
         /\ IF reachedEnd(response)
            THEN /\ RvMainRest(filterAndMap(all), {})
                 /\ UNCHANGED <<page, requests>>
            ELSE /\ page' = page + 1
                 /\ IF pageLimitReached(page + 1)
                    THEN /\ RvMainRest(filterAndMap(all),
                                       {"Reached maximum page limit"})
                         /\ UNCHANGED requests
                    ELSE /\ requests' = requests + 1
                         /\ UNCHANGED <<rv_pc, rv_exit, rv_log, changes, files>>
  /\ UNCHANGED <<token, envOk, warnOnly, upstream>>

NextReview == RvStart \/ RvFetchFailed \/ RvNonArray \/ RvPage

-----------------------------------------------------------------------------
(* check-ossf: the malicious name/version matcher *)

OSSF_ECOSYSTEM_MAP ==
  [e \in {"npm", "pip", "rust-crate", "go", "rubygems", "nuget", "maven"} |->
     CASE e = "npm" -> "npm"
       [] e = "pip" -> "pypi"
       [] e = "rust-crate" -> "crates-io"
       [] e = "go" -> "go"
       [] e = "rubygems" -> "rubygems"
       [] e = "nuget" -> "nuget"
       [] e = "maven" -> "maven"]

OssfDirs == {OSSF_ECOSYSTEM_MAP[e] : e \in DOMAIN OSSF_ECOSYSTEM_MAP}

changedFileMissing_never(fs) == FALSE

\* "!existsSync(file)": the first check of check-ossf and of check-guarddog.
changedFileMissing(fs) == ~existsSync(fs, "changed.json")

\* ecosystemGroups[dir].push(pkg), creating the group on first use; the
\* groups keep insertion order (Object.entries).
pushToGroup(groups, dir, pkg) ==
  IF \E g \in 1..Len(groups) : groups[g].ecosystem = dir
  THEN [g \in 1..Len(groups) |->
          IF groups[g].ecosystem = dir
          THEN [groups[g] EXCEPT !.packages = Append(@, pkg)]
          ELSE groups[g]]
  ELSE Append(groups, [ecosystem |-> dir, packages |-> <<pkg>>])

RECURSIVE ossfGroups(_, _, _)
ossfGroups(changed, i, groups) ==
  IF i > Len(changed) THEN groups
  ELSE LET dep == changed[i]
       IN  IF dep.ecosystem \in DOMAIN OSSF_ECOSYSTEM_MAP
           THEN ossfGroups(changed, i + 1,
                           pushToGroup(groups, OSSF_ECOSYSTEM_MAP[dep.ecosystem],
                                       [name |-> dep.name, version |-> dep.version]))
           ELSE ossfGroups(changed, i + 1, groups)

\* new Map(packages.map((p) => [p.name, p.version])): a later entry with the
\* same name replaces the earlier one.
packageMapHas(packages, d) == \E k \in 1..Len(packages) : packages[k].name = d
packageMapGet(packages, d) ==
  LET last == CHOOSE k \in 1..Len(packages) :
                 /\ packages[k].name = d
                 /\ \A m \in (k + 1)..Len(packages) : packages[m].name # d
  IN  packages[last].version

isJsonFile(f) == f.json

\* The affected loop over one parsed OSV document.
affectedListsVersion(doc, d, version) ==
  \E a \in 1..Len(doc.affected) :
     /\ doc.affected[a].package = d
     /\ doc.affected[a].hasVersions
     /\ \E v \in 1..Len(doc.affected[a].versions) : doc.affected[a].versions[v] = version

\* The exact-version check for one matched package directory: only the
\* first *.json entry is looked at; a read or parse failure leaves no hit.
exactHitsOfDir(entry, version) ==
  IF ~entry.listable THEN <<>>
  ELSE LET jsons == SelectSeq(entry.files, isJsonFile)
       IN  IF Len(jsons) = 0 THEN <<>>
           ELSE IF ~jsons[1].doc.parses THEN <<>>
           ELSE IF affectedListsVersion(jsons[1].doc, entry.name, version)
           THEN << [name |-> entry.name, version |-> version] >>
           ELSE <<>>

RECURSIVE scanEcosystemDir(_, _, _, _)
scanEcosystemDir(entries, i, packages, hits) ==
  IF i > Len(entries) THEN hits
  ELSE LET d == entries[i]
       IN  IF d.isDir /\ packageMapHas(packages, d.name)
           THEN scanEcosystemDir(entries, i + 1, packages,
                  [nameHits  |-> Append(hits.nameHits, d.name),
                   exactHits |-> hits.exactHits \o
                                   exactHitsOfDir(d, packageMapGet(packages, d.name))])
           ELSE scanEcosystemDir(entries, i + 1, packages, hits)

NoHits == [nameHits |-> <<>>, exactHits |-> <<>>]

checkEcosystem(corp, ossfDir, packages) ==
  IF corp[ossfDir].kind = "dir"
  THEN scanEcosystemDir(corp[ossfDir].entries, 1, packages, NoHits)
  ELSE NoHits

RECURSIVE collectMatches(_, _, _, _)
collectMatches(corp, groups, g, acc) ==
  IF g > Len(groups) THEN acc
  ELSE LET hits == checkEcosystem(corp, groups[g].ecosystem, groups[g].packages)
           names == IF Len(hits.nameHits) > 0
                    THEN Append(acc.nameMatches,
                                [ecosystem |-> groups[g].ecosystem, packages |-> hits.nameHits])
                    ELSE acc.nameMatches
           exacts == IF Len(hits.exactHits) > 0
                     THEN Append(acc.exactMatches,
                                 [ecosystem |-> groups[g].ecosystem, packages |-> hits.exactHits])
                     ELSE acc.exactMatches
       IN  collectMatches(corp, groups, g + 1,
                          [nameMatches |-> names, exactMatches |-> exacts])

RECURSIVE flatMap(_, _, _)
flatMap(matches, g, type) ==
  IF g > Len(matches) THEN <<>>
  ELSE [k \in 1..Len(matches[g].packages) |->
          IF type = "exact_match"
          THEN [name |-> matches[g].packages[k].name,
                version |-> matches[g].packages[k].version,
                ecosystem |-> matches[g].ecosystem, type |-> type]
          ELSE [name |-> matches[g].packages[k],
                ecosystem |-> matches[g].ecosystem, type |-> type]]
       \o flatMap(matches, g + 1, type)

ossfJsonOutput_merged(exact, names) ==
  LET exactItems == flatMap(exact, 1, "exact_match")
      nameItems == flatMap(names, 1, "name_match")
      notExact(item) == \A k \in 1..Len(exactItems) :
                           \/ exactItems[k].name # item.name
                           \/ exactItems[k].ecosystem # item.ecosystem
  IN  exactItems \o SelectSeq(nameItems, notExact)

\* [...jsonOutput.exactMatches, ...jsonOutput.nameMatches]
ossfJsonOutput(exact, names) ==
  flatMap(exact, 1, "exact_match") \o flatMap(names, 1, "name_match")

ossfExitCode_warnOnly(exact, argv) ==
  IF Len(exact) > 0 /\ argv.extra # "true" THEN 1 ELSE 0

\* The exit decision at the end of main.
ossfExitCode(exact, argv) == IF Len(exact) > 0 THEN 1 ELSE 0

\* check-ossf main: synchronous from start to exit.
OssfMain ==
  /\ os_pc = "start"
  /\ os_pc' = "exited"
  /\ IF changedFileMissing(files)
     THEN /\ os_log' = os_log \cup {"changed.json file not found"}
          /\ os_exit' = 1
          /\ UNCHANGED <<nameMatches, exactMatches, files>>
     ELSE IF files["changed.json"].kind # "json"
     THEN \* readFileSync or JSON.parse throws outside any handler
          /\ os_log' = os_log \cup {"uncaught exception"}
          /\ os_exit' = 1
          /\ UNCHANGED <<nameMatches, exactMatches, files>>
     ELSE LET changed == files["changed.json"].data
              found == collectMatches(corpus, ossfGroups(changed, 1, <<>>), 1,
                                      [nameMatches |-> <<>>, exactMatches |-> <<>>])
          IN  /\ nameMatches' = found.nameMatches
              /\ exactMatches' = found.exactMatches
              /\ os_log' = os_log
                   \cup (IF Len(found.exactMatches) > 0 THEN {"EXACT MATCH"} ELSE {})
                   \cup (IF Len(found.nameMatches) > 0 THEN {"name match only"} ELSE {})
                   \cup (IF os_argv.outWritable THEN {} ELSE {"Failed to write OSSF results"})
              /\ files' = IF os_argv.outWritable
                          THEN writeFileSync(files, "ossf.json",
                                 ossfJsonOutput(found.exactMatches, found.nameMatches))
                          ELSE files
              /\ os_exit' = ossfExitCode(found.exactMatches, os_argv)
  /\ UNCHANGED <<corpus, os_argv, rvVars, gdVars, agVars, fiVars>>

NextOssf == OssfMain

-----------------------------------------------------------------------------
(* check-guarddog: the heuristic scan scheduler *)

ECOSYSTEM_MAP ==
  [e \in {"npm", "pip", "go", "actions"} |->
     CASE e = "npm" -> "npm"
       [] e = "pip" -> "pypi"
       [] e = "go" -> "go"
       [] e = "actions" -> "github-action"]

startsWith(s, prefix) ==
  /\ Len(prefix) <= Len(s)
  /\ \A k \in 1..Len(prefix) : s[k] = prefix[k]

shouldSkipPackage_anyEcosystem(name, ecosystem) ==
  startsWith(StrTab[name], StrTab["@types/"])

shouldSkipPackage(name, ecosystem) ==
  ecosystem = "npm" /\ startsWith(StrTab[name], StrTab["@types/"])

RECURSIVE guardDogGroups(_, _, _)
guardDogGroups(changed, i, groups) ==
  IF i > Len(changed) THEN groups
  ELSE LET dep == changed[i]
       IN  IF dep.ecosystem \notin DOMAIN ECOSYSTEM_MAP
           THEN guardDogGroups(changed, i + 1, groups)
           ELSE IF shouldSkipPackage(dep.name, dep.ecosystem)
           THEN guardDogGroups(changed, i + 1, groups)
           ELSE guardDogGroups(changed, i + 1,
                               pushToGroup(groups, ECOSYSTEM_MAP[dep.ecosystem],
                                           [name |-> dep.name, version |-> dep.version]))

RECURSIVE flattenTasks(_, _)
flattenTasks(groups, g) ==
  IF g > Len(groups) THEN <<>>
  ELSE [k \in 1..Len(groups[g].packages) |->
          [ecosystem |-> groups[g].ecosystem,
           name      |-> groups[g].packages[k].name,
           version   |-> groups[g].packages[k].version]]
       \o flattenTasks(groups, g + 1)

maxConcurrency == 8
batchSize_half == maxConcurrency \div 2

\* "const batchSize = maxConcurrency".
batchSize == maxConcurrency

\* What the external scanner prints for one package: "fail" is a non-zero
\* exit, "empty" blank output, "garbage" output that does not parse.
ScanReport(errors, results) == [kind |-> "json", errors |-> errors, results |-> results]
ScanFail == [kind |-> "fail"]
ScanEmpty == [kind |-> "empty"]
ScanGarbage == [kind |-> "garbage"]

guarddogRun(behaviour, ecosystem, name, version) ==
  CASE behaviour = "clean" -> ScanReport(<<>>, <<>>)
    [] behaviour = "down" -> ScanFail
    [] behaviour = "noisy" ->
         IF name = "left-pad"
         THEN ScanReport(<<>>, << [key |-> "a", value |-> "null"],
                                  [key |-> "b", value |-> "emptyObject"],
                                  [key |-> "c", value |-> "emptyArray"] >>)
         ELSE IF name = "requests" THEN ScanEmpty
         ELSE ScanReport(<<>>, << [key |-> "shady-links", value |-> "array"] >>)
    [] OTHER ->
         IF name = "left-pad" THEN ScanReport(<<"typosquatting">>, <<>>)
         ELSE IF name = "requests" THEN ScanGarbage
         ELSE IF version = "9.9.9" THEN ScanFail
         ELSE ScanReport(<<>>, <<>>)

\* scanPackage: the scanner is run synchronously (execSync); a failure, blank
\* output or a parse error gives null, otherwise the parsed report with the
\* ecosystem attached.
Null == [kind |-> "null"]

scanPackage_garbageIsResult(behaviour, ecosystem, name, version) ==
  LET output == guarddogRun(behaviour, ecosystem, name, version)
  IN  IF output.kind = "json"
      THEN [kind |-> "result", package |-> name, ecosystem |-> ecosystem,
            errors |-> output.errors, results |-> output.results]
      ELSE IF output.kind = "garbage"
      THEN [kind |-> "result", package |-> name, ecosystem |-> ecosystem,
            errors |-> <<>>, results |-> <<>>]
      ELSE Null

scanPackage(behaviour, ecosystem, name, version) ==
  LET output == guarddogRun(behaviour, ecosystem, name, version)
  IN  IF output.kind # "json" THEN Null
      ELSE [kind |-> "result", package |-> name, ecosystem |-> ecosystem,
            errors |-> output.errors, results |-> output.results]

isNotNull_keepAll(r) == r.kind \in {"null", "result"}

\* "(r) => r !== null".
isNotNull(r) == r.kind # "null"

pushAll_unshift(acc, items) == items \o acc

\* "allResults.push(...items)".
pushAll(acc, items) == acc \o items

batchSettled_anyArrived(results, batch) == Len(results) >= 1

batchSettled_neverSettles(results, batch) == Len(results) > Len(batch)

\* "await Promise.all(batchPromises)" resumes when every promise of the batch
\* has a value.
batchSettled(results, batch) == Len(results) = Len(batch)

slice(s, from, to) ==
  [k \in 1..((IF to < Len(s) THEN to ELSE Len(s)) - from) |-> s[from + k]]

installGuardDog_alwaysOk(testEnv, pipOk) == [ok |-> TRUE, log |-> {}]

\* installGuardDog: skipped (false) in the test environment, otherwise the
\* outcome of pip install; a failed install is warned about.
installGuardDog(testEnv, pipOk) ==
  IF testEnv
  THEN [ok |-> FALSE, log |-> {"Test environment detected, skipping GuardDog installation"}]
  ELSE IF pipOk THEN [ok |-> TRUE, log |-> {}]
  ELSE [ok |-> FALSE, log |-> {"warn: Failed to install GuardDog via pip, skipping scan"}]

\* main from its start to the first scan: the file check, the empty-list and
\* install shortcuts, and the construction of the task queue.
GdStart ==
  /\ gd_pc = "start"
  /\ IF changedFileMissing(files)
     THEN /\ gd_pc' = "exited" /\ gd_exit' = 1
          /\ gd_log' = gd_log \cup {"changed.json file not found"}
          /\ UNCHANGED <<files, allScanTasks>>
     ELSE IF files["changed.json"].kind # "json"
     THEN \* readFileSync or JSON.parse throws; main().catch logs and exits 1
          /\ gd_pc' = "exited" /\ gd_exit' = 1
          /\ gd_log' = gd_log \cup {"GuardDog scan failed"}
          /\ UNCHANGED <<files, allScanTasks>>
     ELSE IF Len(files["changed.json"].data) = 0
     THEN /\ gd_pc' = "exited" /\ gd_exit' = 0
          /\ gd_log' = gd_log \cup {"No changed packages -> skip guarddog"}
          /\ files' = writeFileSync(files, "guarddog.json", <<>>)
          /\ UNCHANGED allScanTasks
     ELSE IF ~installGuardDog(gd_testEnv, gd_installOk).ok
     THEN /\ gd_pc' = "exited" /\ gd_exit' = 0
          /\ gd_log' = gd_log \cup {"Installing GuardDog..."}
                          \cup installGuardDog(gd_testEnv, gd_installOk).log
          /\ files' = writeFileSync(files, "guarddog.json", <<>>)
          /\ UNCHANGED allScanTasks
     ELSE LET tasks == flattenTasks(guardDogGroups(files["changed.json"].data, 1, <<>>), 1)
          IN  /\ allScanTasks' = tasks
              /\ IF Len(tasks) = 0
                 THEN /\ gd_pc' = "exited" /\ gd_exit' = 0
                      /\ gd_log' = gd_log \cup {"No packages to scan"}
                      /\ files' = writeFileSync(files, "guarddog.json", <<>>)
                 ELSE /\ gd_pc' = "batch"
                      /\ UNCHANGED <<gd_exit, gd_log, files>>
  /\ UNCHANGED <<gd_fail, gd_installOk, gd_testEnv, scanner, gd_i, batchResults,
                 inFlight, peakInFlight, batches, allResults, scanned>>
  /\ UNCHANGED <<rvVars, osVars, agVars, fiVars>>

\* batch.map calls scanPackage for the next task of the batch: the scanner is
\* started with execSync, which blocks the process until the scanner has
\* ended, so the callback for the next task cannot run before that.
GdScan ==
  /\ gd_pc = "batch"
  /\ inFlight = 0
  /\ LET batch == slice(allScanTasks, gd_i, gd_i + batchSize)
         k == Len(batchResults) + 1
     IN  /\ k <= Len(batch)
         /\ scanned' = Append(scanned, batch[k])
  /\ inFlight' = inFlight + 1
  /\ peakInFlight' = IF inFlight + 1 > peakInFlight THEN inFlight + 1 ELSE peakInFlight
  /\ UNCHANGED <<gd_fail, gd_installOk, gd_testEnv, scanner, allScanTasks, gd_i,
                 batchResults, batches, allResults, gd_pc, gd_exit, gd_log, files>>
  /\ UNCHANGED <<rvVars, osVars, agVars, fiVars>>

\* execSync returns or throws: scanPackage gives its result for that task.
GdScanSettled ==
  /\ gd_pc = "batch"
  /\ inFlight > 0
  /\ LET batch == slice(allScanTasks, gd_i, gd_i + batchSize)
         k == Len(batchResults) + 1
     IN  batchResults' = Append(batchResults,
                           scanPackage(scanner, batch[k].ecosystem, batch[k].name,
                                       batch[k].version))
  /\ inFlight' = inFlight - 1
  /\ UNCHANGED <<gd_fail, gd_installOk, gd_testEnv, scanner, allScanTasks, gd_i,
                 peakInFlight, batches, allResults, scanned, gd_pc, gd_exit,
                 gd_log, files>>
  /\ UNCHANGED <<rvVars, osVars, agVars, fiVars>>

\* "if (allResults.length > 0) { ... if (guardDogFail) process.exit(1) }".
guarddogExitCode(results, fail) == IF Len(results) > 0 /\ fail THEN 1 ELSE 0

\* await Promise.all(batchPromises) resumes: the non-null results are pushed;
\* after the last batch the results are written and reported.
GdBatchDone ==
  /\ gd_pc = "batch"
  /\ batchSettled(batchResults, slice(allScanTasks, gd_i, gd_i + batchSize))
  /\ inFlight = 0
  /\ LET results == pushAll(allResults, SelectSeq(batchResults, isNotNull))
     IN  /\ allResults' = results
         /\ batchResults' = <<>>
         /\ batches' = Append(batches, slice(allScanTasks, gd_i, gd_i + batchSize))
         /\ peakInFlight' = 0
         /\ gd_i' = gd_i + batchSize
         /\ IF gd_i + batchSize < Len(allScanTasks)
            THEN UNCHANGED <<gd_pc, gd_exit, gd_log, files>>
            ELSE /\ gd_pc' = "exited"
                 /\ files' = writeFileSync(files, "guarddog.json", results)
                 /\ gd_log' = gd_log \cup
                      (IF Len(results) > 0 THEN {"GuardDog findings"}
                       ELSE {"GuardDog produced no findings."})
                 /\ gd_exit' = guarddogExitCode(results, gd_fail)
  /\ UNCHANGED <<gd_fail, gd_installOk, gd_testEnv, scanner, allScanTasks,
                 inFlight, scanned>>
  /\ UNCHANGED <<rvVars, osVars, agVars, fiVars>>

NextGuarddog == GdStart \/ GdScan \/ GdScanSettled \/ GdBatchDone

-----------------------------------------------------------------------------
(* pr-comment: the aggregator *)

ZeroDependencyReview == [totalChanges |-> 0, addedUpdated |-> 0, malwareHits |-> 0]

readDependencyReviewResults(fs) ==
  IF ~existsSync(fs, "changed.json") THEN ZeroDependencyReview
  ELSE IF fs["changed.json"].kind = "garbage" THEN ZeroDependencyReview
  ELSE IF fs["malware-hits.json"].kind = "garbage" THEN ZeroDependencyReview
  ELSE LET changed == fs["changed.json"].data
           malwareHits == IF existsSync(fs, "malware-hits.json")
                          THEN fs["malware-hits.json"].data ELSE <<>>
       IN  [totalChanges |-> Len(changed), addedUpdated |-> Len(changed),
            malwareHits |-> Len(malwareHits)]

isExactMatch(item) == item.type = "exact_match"
isNameMatch(item) == item.type = "name_match"

ZeroOSSF_oneFinding == [findings |-> 1, packages |-> <<>>, nameOnlyMatches |-> <<>>]

\* What readOSSFResults returns without a readable ossf.json.
ZeroOSSF == [findings |-> 0, packages |-> <<>>, nameOnlyMatches |-> <<>>]

readOSSFResults(fs) ==
  IF ~existsSync(fs, "ossf.json") THEN ZeroOSSF
  ELSE IF fs["ossf.json"].kind = "garbage" THEN ZeroOSSF
  ELSE LET ossf == fs["ossf.json"].data
           exact == SelectSeq(ossf, isExactMatch)
           names == SelectSeq(ossf, isNameMatch)
       IN  [findings |-> Len(exact),
            packages |-> [k \in 1..Len(exact) |-> exact[k].name],
            nameOnlyMatches |-> [k \in 1..Len(names) |->
                                   [package |-> names[k].name,
                                    ecosystem |-> names[k].ecosystem]]]

isSignificantValue_any(entry) == TRUE

\* The filter on Object.entries(result.results): null (or undefined), an
\* object without keys and an empty array are not significant; every other
\* value is (a string, a number or a boolean too).
isSignificantValue(entry) ==
  /\ entry.value # "null"
  /\ entry.value # "emptyObject"
  /\ entry.value # "emptyArray"

hasIssues(result) ==
  IF Len(result.errors) > 0 THEN TRUE
  ELSE IF Len(result.results) > 0
  THEN Len(SelectSeq(result.results, isSignificantValue)) > 0
  ELSE FALSE

ZeroGuardDog == [totalScanned |-> 0, findings |-> 0, packagesWithIssues |-> 0]

readGuardDogResults(fs) ==
  IF ~existsSync(fs, "guarddog.json") THEN ZeroGuardDog
  ELSE IF fs["guarddog.json"].kind = "garbage" THEN ZeroGuardDog
  ELSE LET guarddog == fs["guarddog.json"].data
       IN  [totalScanned |-> Len(guarddog), findings |-> Len(guarddog),
            packagesWithIssues |-> Len(SelectSeq(guarddog, hasIssues))]

generateMarkdownSummary_countsNameMatches(data) ==
  [hasIssues |-> \/ data.dependencyReview.malwareHits > 0
                 \/ data.ossf.findings > 0
                 \/ Len(data.ossf.nameOnlyMatches) > 0
                 \/ data.guarddog.packagesWithIssues > 0,
   data |-> data]

\* The overall status line of generateMarkdownSummary.
generateMarkdownSummary(data) ==
  [hasIssues |-> \/ data.dependencyReview.malwareHits > 0
                 \/ data.ossf.findings > 0
                 \/ data.guarddog.packagesWithIssues > 0,
   data |-> data]

NoSummary == [hasIssues |-> FALSE,
              data |-> [dependencyReview |-> ZeroDependencyReview,
                        ossf |-> ZeroOSSF, guarddog |-> ZeroGuardDog]]

\* pr-comment main: nothing is read when commenting is disabled; posting the
\* comment is an external call whose failure is caught inside commentOnPR.
AggMain ==
  /\ ag_pc = "start"
  /\ ag_pc' = "exited"
  /\ ag_exit' = 0
  /\ IF ~ag_enable
     THEN /\ ag_summary' = NoSummary
          /\ ag_summarised' = FALSE
     ELSE /\ ag_summary' = generateMarkdownSummary(
                          [dependencyReview |-> readDependencyReviewResults(files),
                           ossf |-> readOSSFResults(files),
                           guarddog |-> readGuardDogResults(files)])
          /\ ag_summarised' = TRUE
  /\ UNCHANGED <<ag_enable, files, rvVars, osVars, gdVars, fiVars>>

NextAggregate == AggMain

-----------------------------------------------------------------------------
(* frozen-install: lockfile validation per detected ecosystem *)

\* execSync(cmd): TRUE when the command ends with status 0, FALSE when
\* execSync throws.
execSync(failing, cmd) == cmd \notin failing

isYarnBerry(failing, yarnVersion) ==
  /\ execSync(failing, "yarn --version")
  /\ ~startsWith(StrTab[yarnVersion], StrTab["1."])

\* NodeEcosystem.validate: TRUE unless a command of the chosen branch throws.
validateNode(present, packageJson, failing, yarnVersion) ==
  LET pkgManager == IF packageJson.parses THEN packageJson.packageManager ELSE ""
      isBerry == /\ startsWith(StrTab[pkgManager], StrTab["yarn@"])
                 /\ isYarnBerry(failing, yarnVersion)
  IN  IF isBerry
      THEN /\ execSync(failing, "echo checksumBehavior >> .yarnrc.yml")
           /\ execSync(failing, "yarn install --immutable")
      ELSE IF "yarn.lock" \in present
      THEN execSync(failing, "yarn install --frozen-lockfile")
      ELSE IF \/ "pnpm-lock.yaml" \in present
              \/ startsWith(StrTab[pkgManager], StrTab["pnpm@"])
      THEN /\ \/ execSync(failing, "pnpm --version")
              \/ execSync(failing, "corepack prepare pnpm")
           /\ execSync(failing, "pnpm install --frozen-lockfile")
      ELSE execSync(failing, "npm ci")

validatePython(present, failing, ignoreScripts) ==
  IF "poetry.lock" \in present
  THEN /\ execSync(failing, "poetry check --lock")
       /\ ignoreScripts \/ execSync(failing, "poetry install")
  ELSE IF "Pipfile.lock" \in present
  THEN /\ execSync(failing, "pipenv verify")
       /\ ignoreScripts \/ execSync(failing, "pipenv install")
  ELSE IF "requirements.txt" \in present
  THEN /\ execSync(failing, "pip install --dry-run")
       /\ ignoreScripts \/ execSync(failing, "pip install")
  ELSE TRUE

validateRust(present, failing) ==
  IF "Cargo.lock" \in present
  THEN execSync(failing, "cargo check --locked")
  ELSE execSync(failing, "cargo check")

validateGo(failing) ==
  /\ execSync(failing, "go mod verify")
  /\ execSync(failing, "go mod download")

validateRuby(present, failing) ==
  IF "Gemfile.lock" \in present
  THEN execSync(failing, "bundle install --deployment")
  ELSE execSync(failing, "bundle install")

validatePHP(present, failing) ==
  IF "composer.lock" \in present
  THEN execSync(failing, "composer install --no-dev")
  ELSE execSync(failing, "composer install")

\* The handlers in the order main lists them.
ecosystems == <<"Node.js", "Python", "Rust", "Go", "Ruby", "PHP">>

detect(present, name) ==
  CASE name = "Node.js" -> "package.json" \in present
    [] name = "Python" -> \/ "requirements.txt" \in present
                          \/ "poetry.lock" \in present
                          \/ "Pipfile.lock" \in present
                          \/ "pyproject.toml" \in present
    [] name = "Rust" -> "Cargo.toml" \in present
    [] name = "Go" -> "go.mod" \in present
    [] name = "Ruby" -> "Gemfile" \in present
    [] name = "PHP" -> "composer.json" \in present

validate(name, present, packageJson, failing, yarnVersion, ignoreScripts) ==
  CASE name = "Node.js" -> validateNode(present, packageJson, failing, yarnVersion)
    [] name = "Python" -> validatePython(present, failing, ignoreScripts)
    [] name = "Rust" -> validateRust(present, failing)
    [] name = "Go" -> validateGo(failing)
    [] name = "Ruby" -> validateRuby(present, failing)
    [] name = "PHP" -> validatePHP(present, failing)

frozenExitCode_alwaysZero(succeeded) == 0

\* "if (allSucceeded) process.exit(0) else process.exit(1)".
frozenExitCode(succeeded) == IF succeeded THEN 0 ELSE 1

\* main up to the loop: chdir, detection, and the exit when nothing is found.
FiStart ==
  /\ fi_pc = "start"
  /\ IF ~fi_workdirOk
     THEN \* process.chdir throws; main().catch logs and exits 1
          /\ fi_pc' = "exited" /\ fi_exit' = 1
          /\ fi_log' = fi_log \cup {"Unexpected error"}
          /\ UNCHANGED detectedEcosystems
     ELSE LET hasMarker(name) == detect(fi_present, name)
              detected == SelectSeq(ecosystems, hasMarker)
          IN  /\ detectedEcosystems' = detected
              /\ IF Len(detected) = 0
                 THEN /\ fi_pc' = "exited" /\ fi_exit' = 1
                      /\ fi_log' = fi_log \cup {"No supported package ecosystems detected"}
                 ELSE /\ fi_pc' = "validating"
                      /\ fi_log' = fi_log \cup {"Detected ecosystems"}
                      /\ UNCHANGED fi_exit
  /\ UNCHANGED <<fi_present, fi_packageJson, fi_failing, fi_yarnVersion, fi_workdirOk,
                 fi_ignoreScripts, fi_next, allSucceeded, fi_validated>>
  /\ UNCHANGED <<files, rvVars, osVars, gdVars, agVars>>

\* One iteration of the loop: the next detected ecosystem is validated; after
\* the last one main exits with the overall result.
FiValidate ==
  /\ fi_pc = "validating"
  /\ LET name == detectedEcosystems[fi_next + 1]
         success == validate(name, fi_present, fi_packageJson, fi_failing,
                             fi_yarnVersion, fi_ignoreScripts)
         succeeded == IF success THEN allSucceeded ELSE FALSE
     IN  /\ fi_validated' = Append(fi_validated, [name |-> name, success |-> success])
         /\ allSucceeded' = succeeded
         /\ fi_next' = fi_next + 1
         /\ IF fi_next + 1 < Len(detectedEcosystems)
            THEN /\ fi_log' = fi_log \cup (IF success THEN {} ELSE {"validation failed"})
                 /\ UNCHANGED <<fi_pc, fi_exit>>
            ELSE /\ fi_pc' = "exited"
                 /\ fi_exit' = frozenExitCode(succeeded)
                 /\ fi_log' = fi_log \cup (IF success THEN {} ELSE {"validation failed"})
                      \cup (IF succeeded
                            THEN {"All ecosystem validations passed!"}
                            ELSE {"One or more ecosystem validations failed!"})
  /\ UNCHANGED <<fi_present, fi_packageJson, fi_failing, fi_yarnVersion, fi_workdirOk,
                 fi_ignoreScripts, detectedEcosystems>>
  /\ UNCHANGED <<files, rvVars, osVars, gdVars, agVars>>

NextFrozen == FiStart \/ FiValidate

-----------------------------------------------------------------------------
(* The pipeline: Retriever -> {Matcher, Scheduler} -> Aggregator, run in one
   working directory; the detectors are independent of each other. *)

PipeDetectors ==
  /\ rv_pc = "exited"
  /\ os_pc = "off" /\ gd_pc = "off"
  /\ os_pc' = "start" /\ gd_pc' = "start"
  /\ UNCHANGED <<files, rvVars, agVars, fiVars>>
  /\ UNCHANGED <<corpus, os_argv, os_exit, os_log, nameMatches, exactMatches>>
  /\ UNCHANGED <<gd_fail, gd_installOk, gd_testEnv, scanner, allScanTasks, gd_i,
                 batchResults, inFlight, peakInFlight, batches, allResults,
                 scanned, gd_exit, gd_log>>

PipeAggregate ==
  /\ rv_pc = "exited"
  /\ os_pc = "exited" /\ gd_pc = "exited"
  /\ ag_pc = "off"
  /\ ag_pc' = "start"
  /\ UNCHANGED <<files, rvVars, osVars, gdVars, fiVars>>
  /\ UNCHANGED <<ag_enable, ag_summary, ag_summarised, ag_exit>>

NextPipeline == PipeDetectors \/ PipeAggregate

-----------------------------------------------------------------------------
(* Inputs of check-ossf: corpora and changed-dependency lists *)

Affected(name, versions) == [package |-> name, hasVersions |-> TRUE, versions |-> versions]
AffectedNoVersions(name) == [package |-> name, hasVersions |-> FALSE, versions |-> <<>>]
OsvFile(affected) == [json |-> TRUE, doc |-> [parses |-> TRUE, affected |-> affected]]
BrokenJson == [json |-> TRUE, doc |-> [parses |-> FALSE, affected |-> <<>>]]
Readme == [json |-> FALSE, doc |-> [parses |-> FALSE, affected |-> <<>>]]
PackageDir(name, fs) == [name |-> name, isDir |-> TRUE, listable |-> TRUE, files |-> fs]
LockedDir(name) == [name |-> name, isDir |-> TRUE, listable |-> FALSE, files |-> <<>>]
PlainFile(name) == [name |-> name, isDir |-> FALSE, listable |-> FALSE, files |-> <<>>]
EcoDir(entries) == [kind |-> "dir", entries |-> entries]
AbsentDir == [kind |-> "absent", entries |-> <<>>]
UnreadableDir == [kind |-> "unreadable", entries |-> <<>>]

NoCorpus == [d \in OssfDirs |-> AbsentDir]
CorpusOf(npm, pypi) == [d \in OssfDirs |-> IF d = "npm" THEN npm ELSE IF d = "pypi" THEN pypi ELSE AbsentDir]

Corpora ==
  << NoCorpus,
     CorpusOf(EcoDir(<< PackageDir("evil-pkg", << OsvFile(<< Affected("evil-pkg", <<"1.0.0">>) >>) >>) >>),
              AbsentDir),
     CorpusOf(EcoDir(<< PackageDir("evil-pkg", << OsvFile(<< Affected("evil-pkg", <<"1.0.0">>) >>),
                                                  OsvFile(<< Affected("evil-pkg", <<"9.9.9">>) >>) >>) >>),
              EcoDir(<< PackageDir("evil-pkg", << OsvFile(<< Affected("evil-pkg", <<"9.9.9">>) >>) >>) >>)),
     CorpusOf(EcoDir(<< PackageDir("evil-pkg", << Readme,
                                                  OsvFile(<< Affected("other-pkg", <<"9.9.9">>),
                                                             Affected("evil-pkg", <<"0.0.1", "1.0.0">>) >>) >>) >>),
              AbsentDir),
     CorpusOf(EcoDir(<< PackageDir("evil-pkg", << BrokenJson,
                                                  OsvFile(<< Affected("evil-pkg", <<"1.0.0">>) >>) >>) >>),
              AbsentDir),
     CorpusOf(EcoDir(<< PlainFile("evil-pkg"),
                        PackageDir("safe-pkg", << OsvFile(<< AffectedNoVersions("safe-pkg") >>) >>) >>),
              AbsentDir),
     CorpusOf(EcoDir(<< LockedDir("evil-pkg") >>),
              EcoDir(<< PackageDir("evil-pkg", << OsvFile(<< Affected("evil-pkg", <<"1.0.0", "9.9.9">>) >>) >>) >>)),
     CorpusOf(UnreadableDir,
              EcoDir(<< PackageDir("safe-pkg", << Readme >>),
                        PackageDir("evil-pkg", << OsvFile(<< Affected("evil-pkg", <<"1.0.0">>) >>) >>) >>)),
     CorpusOf(EcoDir(<< PackageDir("safe-pkg", << OsvFile(<< Affected("safe-pkg", <<"1.0.0">>) >>) >>),
                        PackageDir("evil-pkg", << OsvFile(<< Affected("evil-pkg", <<"9.9.9">>) >>) >>) >>),
              AbsentDir) >>

Dep(name, version, ecosystem) == [name |-> name, version |-> version, ecosystem |-> ecosystem]

ChangePool ==
  { Dep("evil-pkg", "1.0.0", "npm"), Dep("evil-pkg", "9.9.9", "npm"),
    Dep("safe-pkg", "1.0.0", "npm"), Dep("evil-pkg", "1.0.0", "pip"),
    Dep("evil-pkg", "9.9.9", "pip"), Dep("evil-pkg", "1.0.0", "composer") }

ChangedLists == UNION {[1..n -> ChangePool] : n \in 0..MaxChanged}

ChangedFiles == {Missing, Garbage} \cup {Json(c) : c \in ChangedLists}

-----------------------------------------------------------------------------
(* Inputs of dependency-review *)

SmallTotals == {k * perPage + d : k \in 0..MaxFullPages, d \in {0, 1, 2, 99}}
BigTotals == {(maxPages - 1) * perPage, maxPages * perPage - 1,
              maxPages * perPage, maxPages * perPage + 1, (maxPages + 1) * perPage}

Source(kind, total, failAt, nonArrayAt, seed) ==
  [kind |-> kind, total |-> total, failAt |-> failAt,
   nonArrayAt |-> nonArrayAt, seed |-> seed]

SmallSources ==
  {Source("finite", n, f, a, s) :
     n \in SmallTotals, f \in 0..(MaxFullPages + 1),
     a \in 0..(MaxFullPages + 1), s \in 0..MaxSeed}
BigSources ==
  {Source("finite", n, 0, 0, 0) : n \in BigTotals}
    \cup {Source("endless", 0, 0, 0, s) : s \in 0..1}
    \cup {Source("endless", 0, maxPages, 0, 0)}

FiIdle ==
  /\ fi_present = {} /\ fi_packageJson = [parses |-> FALSE, packageManager |-> ""]
  /\ fi_failing = {} /\ fi_yarnVersion = "1.22.19" /\ fi_workdirOk = TRUE
  /\ fi_ignoreScripts = TRUE
  /\ detectedEcosystems = <<>> /\ fi_next = 0 /\ allSucceeded = TRUE
  /\ fi_validated = <<>> /\ fi_pc = "off" /\ fi_exit = -1 /\ fi_log = {}

OsIdle ==
  /\ corpus = NoCorpus /\ os_argv = [outWritable |-> TRUE, extra |-> ""]
  /\ os_pc = "off" /\ os_exit = -1 /\ os_log = {}
  /\ nameMatches = <<>> /\ exactMatches = <<>>

GdIdle ==
  /\ gd_fail = FALSE /\ gd_installOk = FALSE /\ gd_testEnv = FALSE
  /\ scanner = "clean"
  /\ allScanTasks = <<>> /\ gd_i = 0 /\ batchResults = <<>> /\ allResults = <<>>
  /\ inFlight = 0 /\ peakInFlight = 0 /\ batches = <<>>
  /\ scanned = <<>> /\ gd_pc = "off" /\ gd_exit = -1 /\ gd_log = {}

AgIdle ==
  /\ ag_enable = FALSE /\ ag_summary = NoSummary /\ ag_summarised = FALSE
  /\ ag_pc = "off" /\ ag_exit = -1

RvIdle ==
  /\ token = TRUE /\ envOk = TRUE /\ warnOnly = FALSE
  /\ upstream = Source("finite", 0, 0, 0, 0)
  /\ page = 0 /\ allChanges = <<>> /\ requests = 0 /\ fetched = <<>>
  /\ changes = <<>> /\ rv_pc = "off" /\ rv_exit = -1 /\ rv_log = {}

InitReview ==
  /\ files = NoFiles
  /\ OsIdle /\ GdIdle /\ AgIdle /\ FiIdle
  /\ token \in BOOLEAN
  /\ envOk \in BOOLEAN
  /\ warnOnly \in BOOLEAN
  /\ upstream \in IF token /\ envOk THEN SmallSources \cup BigSources
                  ELSE {Source("finite", 1, 0, 0, 0)}
  /\ page = 0 /\ allChanges = <<>> /\ requests = 0 /\ fetched = <<>>
  /\ changes = <<>> /\ rv_pc = "start" /\ rv_exit = -1 /\ rv_log = {}

SpecReview == InitReview /\ [][NextReview]_vars

InitOssf ==
  /\ RvIdle /\ GdIdle /\ AgIdle /\ FiIdle
  /\ files \in {[NoFiles EXCEPT !["changed.json"] = c] : c \in ChangedFiles}
  /\ corpus \in {Corpora[k] : k \in 1..Len(Corpora)}
  /\ os_argv \in {[outWritable |-> w, extra |-> x] :
                    w \in BOOLEAN, x \in {"", "true", "false"}}
  /\ os_pc = "start" /\ os_exit = -1 /\ os_log = {}
  /\ nameMatches = <<>> /\ exactMatches = <<>>

SpecOssf == InitOssf /\ [][NextOssf]_vars

GdChangePool ==
  { Dep("left-pad", "1.0.0", "npm"), Dep("@types/node", "9.9.9", "npm"),
    Dep("requests", "2.28.0", "pip"), Dep("types", "9.9.9", "npm"),
    Dep("laravel", "1.0.0", "composer"), Dep("checkout", "v4", "actions"),
    Dep("@types/node", "1.0.0", "pip") }
GdPoolSeq ==
  << Dep("left-pad", "1.0.0", "npm"), Dep("requests", "2.28.0", "pip"),
     Dep("@types/node", "9.9.9", "npm"), Dep("checkout", "v4", "actions"),
     Dep("types", "9.9.9", "npm"), Dep("laravel", "1.0.0", "composer") >>
\* A long change list of n entries, of which every sixth has no scanner
\* mapping and every sixth is a type-definition package.
LongChanged(n) == [i \in 1..n |-> GdPoolSeq[((i - 1) % Len(GdPoolSeq)) + 1]]
GdChangedLists ==
  UNION {[1..n -> GdChangePool] : n \in 0..MaxChanged}
    \cup {LongChanged(n) : n \in {12, 13, 24, 25, 26}}
ScannerBehaviours == {"clean", "down", "noisy", "mixed"}

InitGuarddog ==
  /\ RvIdle /\ OsIdle /\ AgIdle /\ FiIdle
  /\ files \in {[NoFiles EXCEPT !["changed.json"] = c] :
                  c \in {Missing, Garbage} \cup {Json(l) : l \in GdChangedLists}}
  /\ gd_fail \in BOOLEAN
  /\ gd_installOk \in BOOLEAN
  /\ gd_testEnv \in BOOLEAN
  /\ scanner \in ScannerBehaviours
  /\ allScanTasks = <<>> /\ gd_i = 0 /\ batchResults = <<>> /\ allResults = <<>>
  /\ inFlight = 0 /\ peakInFlight = 0 /\ batches = <<>>
  /\ scanned = <<>> /\ gd_pc = "start" /\ gd_exit = -1 /\ gd_log = {}

SpecGuarddog == InitGuarddog /\ [][NextGuarddog]_vars

\* The batch loop under the scheduling the runtime gives it: batch.map calls
\* scanPackage for each task of the batch, a scan that has been started ends
\* (execSync returns or throws), and a settled batch resumes main.
SpecGuarddogLive ==
  /\ InitGuarddog
  /\ [][NextGuarddog]_vars
  /\ WF_vars(GdScan)
  /\ WF_vars(GdScanSettled)
  /\ WF_vars(GdBatchDone)

ScanResult(package, ecosystem, errors, results) ==
  [kind |-> "result", package |-> package, ecosystem |-> ecosystem,
   errors |-> errors, results |-> results]
MalwareHit(name) == [name |-> name, version |-> "1.0.0", vulnerabilities |-> <<vBackdoor>>]
ExactItem(name) == [name |-> name, version |-> "1.0.0", ecosystem |-> "npm", type |-> "exact_match"]
NameItem(name) == [name |-> name, ecosystem |-> "npm", type |-> "name_match"]

ChangedArtifacts ==
  {Missing, Garbage, Json(<<>>), Json(<<Dep("evil-pkg", "1.0.0", "npm")>>),
   Json(<<Dep("evil-pkg", "1.0.0", "npm"), Dep("left-pad", "1.0.0", "npm")>>)}
MalwareArtifacts ==
  {Missing, Garbage, Json(<<>>), Json(<<MalwareHit("evil-pkg")>>),
   Json(<<MalwareHit("evil-pkg"), MalwareHit("left-pad")>>)}
OssfArtifacts ==
  {Missing, Garbage, Json(<<>>), Json(<<NameItem("evil-pkg")>>),
   Json(<<ExactItem("evil-pkg"), NameItem("evil-pkg")>>),
   Json(<<NameItem("evil-pkg"), NameItem("left-pad")>>)}
GuarddogArtifacts ==
  {Missing, Garbage, Json(<<>>),
   Json(<<ScanResult("left-pad", "npm", <<>>, <<>>)>>),
   Json(<<ScanResult("left-pad", "npm", <<"typosquatting">>, <<>>)>>),
   Json(<<ScanResult("left-pad", "npm", <<>>,
                     << [key |-> "a", value |-> "null"],
                        [key |-> "b", value |-> "emptyObject"],
                        [key |-> "c", value |-> "emptyArray"] >>),
          ScanResult("requests", "pypi", <<>>,
                     << [key |-> "a", value |-> "null"],
                        [key |-> "shady-links", value |-> "array"] >>)>>),
   Json(<<ScanResult("left-pad", "npm", <<>>, <<>>),
          ScanResult("requests", "pypi", <<"typosquatting">>, <<>>),
          ScanResult("types", "npm", <<>>,
                     << [key |-> "a", value |-> "emptyString"],
                        [key |-> "b", value |-> "zero"] >>),
          ScanResult("checkout", "github-action", <<>>,
                     << [key |-> "a", value |-> "emptyArray"],
                        [key |-> "b", value |-> "false"] >>),
          ScanResult("evil-pkg", "npm", <<>>,
                     << [key |-> "a", value |-> "emptyObject"],
                        [key |-> "b", value |-> "null"] >>)>>)}

InitAggregate ==
  /\ RvIdle /\ OsIdle /\ GdIdle /\ FiIdle
  /\ files \in {[f \in ArtifactNames |->
                   CASE f = "changed.json" -> c
                     [] f = "malware-hits.json" -> m
                     [] f = "ossf.json" -> o
                     [] f = "guarddog.json" -> g] :
                  c \in ChangedArtifacts, m \in MalwareArtifacts,
                  o \in OssfArtifacts, g \in GuarddogArtifacts}
  /\ ag_enable \in BOOLEAN
  /\ ag_summary = NoSummary /\ ag_summarised = FALSE
  /\ ag_pc = "start" /\ ag_exit = -1

SpecAggregate == InitAggregate /\ [][NextAggregate]_vars

-----------------------------------------------------------------------------
(* Inputs of frozen-install *)

Projects ==
  { {},
    {"yarn.lock", "Cargo.lock", "Gemfile.lock"},
    {"package.json"},
    {"package.json", "package-lock.json"},
    {"package.json", "yarn.lock"},
    {"package.json", "pnpm-lock.yaml"},
    {"pyproject.toml"},
    {"requirements.txt", "poetry.lock"},
    {"Pipfile.lock", "requirements.txt"},
    {"package.json", "requirements.txt", "Cargo.toml"},
    {"Cargo.toml", "Cargo.lock", "go.mod"},
    {"Gemfile", "composer.json", "composer.lock"},
    {"Gemfile", "Gemfile.lock", "composer.json", "pyproject.toml"},
    {"package.json", "package-lock.json", "requirements.txt", "Cargo.toml",
     "go.mod", "Gemfile", "composer.json"} }

PackageJsons ==
  { [parses |-> FALSE, packageManager |-> ""],
    [parses |-> TRUE, packageManager |-> ""],
    [parses |-> TRUE, packageManager |-> "yarn@3.6.0"],
    [parses |-> TRUE, packageManager |-> "pnpm@8.6.0"],
    [parses |-> TRUE, packageManager |-> "npm@9.8.0"] }

FailingCommands ==
  { {},
    {"npm ci"},
    {"pip install --dry-run"},
    {"pip install", "poetry install", "pipenv install"},
    {"cargo check"},
    {"cargo check --locked", "go mod download"},
    {"bundle install", "composer install --no-dev"},
    {"composer install", "bundle install --deployment"},
    {"pnpm --version"},
    {"pnpm --version", "corepack prepare pnpm"},
    {"yarn --version"},
    {"yarn install --immutable", "yarn install --frozen-lockfile", "poetry check --lock"},
    {"npm ci", "pip install --dry-run", "cargo check", "go mod verify",
     "bundle install", "composer install"} }

InitFrozen ==
  /\ files = NoFiles
  /\ RvIdle /\ OsIdle /\ GdIdle /\ AgIdle
  /\ fi_present \in Projects
  /\ fi_packageJson \in IF "package.json" \in fi_present THEN PackageJsons
                        ELSE {[parses |-> FALSE, packageManager |-> ""]}
  /\ fi_failing \in FailingCommands
  /\ fi_yarnVersion \in {"1.22.19", "3.6.0"}
  /\ fi_workdirOk \in BOOLEAN
  /\ fi_ignoreScripts \in BOOLEAN
  /\ detectedEcosystems = <<>> /\ fi_next = 0 /\ allSucceeded = TRUE
  /\ fi_validated = <<>> /\ fi_pc = "start" /\ fi_exit = -1 /\ fi_log = {}

SpecFrozen == InitFrozen /\ [][NextFrozen]_vars

\* A pipeline run starts in a fresh working directory.
PipelineSources ==
  {Source("finite", n, f, a, s) :
     n \in {0, 2, 5}, f \in 0..1, a \in 0..1, s \in 0..MaxSeed}

InitPipeline ==
  /\ files = NoFiles
  /\ FiIdle
  /\ token \in BOOLEAN
  /\ envOk = TRUE
  /\ warnOnly \in BOOLEAN
  /\ upstream \in IF token THEN PipelineSources ELSE {Source("finite", 1, 0, 0, 0)}
  /\ page = 0 /\ allChanges = <<>> /\ requests = 0 /\ fetched = <<>>
  /\ changes = <<>> /\ rv_pc = "start" /\ rv_exit = -1 /\ rv_log = {}
  /\ corpus \in {Corpora[k] : k \in {1, 2, 7}}
  /\ os_argv \in {[outWritable |-> w, extra |-> ""] : w \in BOOLEAN}
  /\ os_pc = "off" /\ os_exit = -1 /\ os_log = {}
  /\ nameMatches = <<>> /\ exactMatches = <<>>
  /\ gd_fail \in BOOLEAN
  /\ gd_installOk \in BOOLEAN
  /\ gd_testEnv = FALSE
  /\ scanner \in {"clean", "mixed"}
  /\ allScanTasks = <<>> /\ gd_i = 0 /\ batchResults = <<>> /\ allResults = <<>>
  /\ inFlight = 0 /\ peakInFlight = 0 /\ batches = <<>>
  /\ scanned = <<>> /\ gd_pc = "off" /\ gd_exit = -1 /\ gd_log = {}
  /\ ag_enable \in BOOLEAN
  /\ ag_summary = NoSummary /\ ag_summarised = FALSE
  /\ ag_pc = "off" /\ ag_exit = -1

\* A working directory on which the whole pipeline runs, or a prepared
\* directory on which the aggregator is run on its own.
Init == InitPipeline \/ InitAggregate
Next == NextReview \/ NextPipeline \/ NextOssf \/ NextGuarddog \/ NextAggregate
Spec == Init /\ [][Next]_vars

-----------------------------------------------------------------------------
(* Properties *)

ChangedReadable == files["changed.json"].kind = "json"

CorpusHasDir(dir, name) ==
  /\ corpus[dir].kind = "dir"
  /\ \E e \in 1..Len(corpus[dir].entries) :
        corpus[dir].entries[e].name = name /\ corpus[dir].entries[e].isDir

ConsultedAdvisoryLists(dir, name, version) ==
  /\ corpus[dir].kind = "dir"
  /\ \E e \in 1..Len(corpus[dir].entries) :
        LET d == corpus[dir].entries[e]
            firstJson == {f \in 1..Len(d.files) :
                            d.files[f].json /\ \A h \in 1..(f - 1) : ~d.files[h].json}
        IN  /\ d.name = name /\ d.isDir /\ d.listable
            /\ \E f \in firstJson :
                  /\ d.files[f].doc.parses
                  /\ \E a \in 1..Len(d.files[f].doc.affected) :
                        LET aff == d.files[f].doc.affected[a]
                        IN  /\ aff.package = name /\ aff.hasVersions
                            /\ \E v \in 1..Len(aff.versions) : aff.versions[v] = version

ExactReported(dir, name, version) ==
  \E g \in 1..Len(exactMatches) :
     /\ exactMatches[g].ecosystem = dir
     /\ \E k \in 1..Len(exactMatches[g].packages) :
           /\ exactMatches[g].packages[k].name = name
           /\ exactMatches[g].packages[k].version = version

ExactReportedForName(dir, name) ==
  \E g \in 1..Len(exactMatches) :
     /\ exactMatches[g].ecosystem = dir
     /\ \E k \in 1..Len(exactMatches[g].packages) :
           exactMatches[g].packages[k].name = name

NameReported(dir, name) ==
  \E g \in 1..Len(nameMatches) :
     /\ nameMatches[g].ecosystem = dir
     /\ \E k \in 1..Len(nameMatches[g].packages) : nameMatches[g].packages[k] = name

\* C2: for every change of a supported ecosystem: a corpus directory for the
\* name whose consulted advisory lists the version gives an exact match; a
\* directory without the version listed gives a name match and no exact match
\* for that change; no directory gives no match at all.
C2_MatchPerChange ==
  (os_pc = "exited" /\ ChangedReadable) =>
     \A i \in 1..Len(files["changed.json"].data) :
        LET c == files["changed.json"].data[i]
        IN  c.ecosystem \in DOMAIN OSSF_ECOSYSTEM_MAP =>
              LET dir == OSSF_ECOSYSTEM_MAP[c.ecosystem]
              IN  /\ (CorpusHasDir(dir, c.name) /\ ConsultedAdvisoryLists(dir, c.name, c.version))
                       => ExactReported(dir, c.name, c.version)
                  /\ (CorpusHasDir(dir, c.name) /\ ~ConsultedAdvisoryLists(dir, c.name, c.version))
                       => (NameReported(dir, c.name) /\ ~ExactReported(dir, c.name, c.version))
                  /\ ~CorpusHasDir(dir, c.name)
                       => (~NameReported(dir, c.name) /\ ~ExactReportedForName(dir, c.name))

RetrievalSucceeded == rv_pc = "exited" /\ files["changed.json"].kind = "json"

isAddedOrUpdated(rec) == rec.change_type \in {"added", "updated"}

\* C3: the retriever's output is exactly the added/updated records of the
\* fetched pages, in arrival order, nothing sorted or de-duplicated, and no
\* removed record in it.
C3_OutputIsFilteredPages ==
  RetrievalSucceeded =>
     LET kept == SelectSeq(fetched, isAddedOrUpdated)
     IN  /\ Len(changes) = Len(kept)
         /\ \A i \in 1..Len(changes) :
               /\ changes[i].name = kept[i].name
               /\ changes[i].version = kept[i].version
               /\ changes[i].ecosystem = kept[i].ecosystem
               /\ changes[i].changeType = kept[i].change_type
               /\ changes[i].changeType # "removed"

\* A source that serves N records in pages of 100 and answers every request.
WellBehavedFinite ==
  upstream.kind = "finite" /\ upstream.failAt = 0 /\ upstream.nonArrayAt = 0

Ceil(n, d) == (n + d - 1) \div d

StoppedAtFirstShortPage ==
  /\ page = requests
  /\ PageSize(upstream, page) < perPage
  /\ \A p \in 1..(page - 1) : PageSize(upstream, p) = perPage

\* C4 as stated: N records (N < 5000) in pages of 100 take exactly ceil(N/100)
\* requests, ending at the first short page.
C4_CeilRequests ==
  (rv_pc = "exited" /\ token /\ envOk /\ WellBehavedFinite
     /\ upstream.total < maxPages * perPage) =>
       /\ requests = Ceil(upstream.total, perPage)
       /\ StoppedAtFirstShortPage

\* C4 amended: N records (N < 5000) in pages of 100 take exactly
\* floor(N/100) + 1 requests, ending at the first short page (which is empty
\* when N is a multiple of 100).
C4_FloorPlusOneRequests ==
  (rv_pc = "exited" /\ token /\ envOk /\ WellBehavedFinite
     /\ upstream.total < maxPages * perPage) =>
       /\ requests = (upstream.total \div perPage) + 1
       /\ StoppedAtFirstShortPage
       /\ (upstream.total % perPage # 0 => requests = Ceil(upstream.total, perPage))

C4_Witness ==
  /\ rv_pc = "exited" /\ WellBehavedFinite
  /\ upstream.total = 2 * perPage /\ requests = 3 /\ Len(fetched) = 2 * perPage

AlwaysFullSource ==
  /\ upstream.failAt = 0 /\ upstream.nonArrayAt = 0
  /\ \A p \in 1..(maxPages + 1) : PageSize(upstream, p) = perPage

\* C5: against a source whose every page is full the retriever stops after
\* exactly 50 requests with at most 5000 records and the page-limit warning;
\* it never issues a 51st request.
C5_PageCap ==
  (token /\ envOk /\ AlwaysFullSource) =>
     /\ requests <= maxPages
     /\ Len(allChanges) <= maxPages * perPage
     /\ rv_pc = "exited" =>
          /\ requests = maxPages
          /\ Len(fetched) = maxPages * perPage
          /\ "Reached maximum page limit" \in rv_log

C5_Witness ==
  /\ rv_pc = "exited" /\ upstream.kind = "endless" /\ AlwaysFullSource
  /\ requests = maxPages /\ "Reached maximum page limit" \in rv_log

\* The retriever's request failed (transport or authentication error).
RequestFailed == "Error fetching dependency changes" \in rv_log

\* How the consumers behave on an empty change list.
DownstreamAsOnEmptyList ==
  /\ os_pc = "exited" =>
        /\ os_exit = 0 /\ nameMatches = <<>> /\ exactMatches = <<>>
        /\ os_argv.outWritable => files["ossf.json"] = Json(<<>>)
  /\ gd_pc = "exited" =>
        /\ gd_exit = 0 /\ scanned = <<>> /\ files["guarddog.json"] = Json(<<>>)
  /\ (ag_pc = "exited" /\ ag_summarised) =>
        /\ ag_exit = 0
        /\ ag_summary.data.dependencyReview.totalChanges = 0
        /\ ag_summary.data.dependencyReview.malwareHits = 0

\* C6: a failed request is fatal (exit 1) without warn-only; with warn-only
\* the error is logged, the retriever exits 0 and every downstream phase
\* behaves as on an empty change list.
C6_DegradesToEmptyChangeSet ==
  (rv_pc = "exited" /\ RequestFailed) =>
     IF ~warnOnly THEN rv_exit = 1
     ELSE /\ rv_exit = 0
          /\ "Error during dependency review" \in rv_log
          /\ DownstreamAsOnEmptyList

MissingCountsAsZero ==
  /\ ~existsSync(files, "changed.json") =>
        ag_summary.data.dependencyReview.totalChanges = 0
  /\ ~existsSync(files, "malware-hits.json") =>
        ag_summary.data.dependencyReview.malwareHits = 0
  /\ ~existsSync(files, "ossf.json") =>
        /\ ag_summary.data.ossf.findings = 0
        /\ ag_summary.data.ossf.nameOnlyMatches = <<>>
  /\ ~existsSync(files, "guarddog.json") =>
        /\ ag_summary.data.guarddog.totalScanned = 0
        /\ ag_summary.data.guarddog.packagesWithIssues = 0

\* C7 as stated: the matcher, the scheduler and the aggregator all take a
\* missing artifact for an empty array and none of them exits non-zero.
C7_MissingIsEmptyEverywhere ==
  /\ (os_pc = "exited" /\ ~existsSync(files, "changed.json")) => os_exit = 0
  /\ (gd_pc = "exited" /\ ~existsSync(files, "changed.json")) => gd_exit = 0
  /\ (ag_pc = "exited" /\ ag_summarised) => (ag_exit = 0 /\ MissingCountsAsZero)

\* C7 amended: only the aggregator tolerates a missing artifact (its counts
\* for that artifact are zero and it exits 0); the matcher and the scheduler
\* exit 1 with "changed.json file not found" when the list is missing.
C7_OnlyAggregatorTolerates ==
  /\ (os_pc = "exited" /\ ~existsSync(files, "changed.json")) =>
        (os_exit = 1 /\ "changed.json file not found" \in os_log)
  /\ (gd_pc = "exited" /\ ~existsSync(files, "changed.json")) =>
        (gd_exit = 1 /\ "changed.json file not found" \in gd_log)
  /\ (ag_pc = "exited" /\ ag_summarised) => (ag_exit = 0 /\ MissingCountsAsZero)

C7_Witness ==
  /\ ~existsSync(files, "changed.json") /\ ~existsSync(files, "guarddog.json")
  /\ os_pc = "exited" /\ os_exit = 1
  /\ gd_pc = "exited" /\ gd_exit = 1
  /\ ag_pc = "exited" /\ ag_summarised /\ ag_exit = 0

\* C8: with no changed-dependency file, check-ossf and check-guarddog each
\* report "changed.json file not found" and exit 1, having scanned nothing
\* and written no output artifact.
C8_MissingChangedFileExitsOne ==
  ~existsSync(files, "changed.json") =>
     /\ os_pc = "exited" =>
           /\ os_exit = 1 /\ os_log = {"changed.json file not found"}
           /\ nameMatches = <<>> /\ exactMatches = <<>>
           /\ ~existsSync(files, "ossf.json")
     /\ gd_pc = "exited" =>
           /\ gd_exit = 1 /\ gd_log = {"changed.json file not found"}
           /\ scanned = <<>> /\ allScanTasks = <<>>
           /\ ~existsSync(files, "guarddog.json")

C8_Witness ==
  /\ ~existsSync(files, "changed.json")
  /\ os_pc = "exited" /\ os_exit = 1 /\ ~existsSync(files, "ossf.json")
  /\ gd_pc = "exited" /\ gd_exit = 1 /\ gd_installOk /\ gd_fail

\* C9: without a token the retriever exits 1 before anything else: no request
\* is ever issued and no artifact is written.
C9_TokenCheckedFirst ==
  ~token =>
     /\ requests = 0
     /\ files = NoFiles
     /\ rv_pc = "exited" => (rv_exit = 1 /\ rv_log = {"GITHUB_TOKEN is required"})

C9_Witness ==
  /\ ~token /\ ~envOk /\ warnOnly
  /\ rv_pc = "exited" /\ rv_exit = 1 /\ requests = 0

ContainsMalwareAnyCase(str) ==
  LET s == StrTab[str]
      w == <<"m", "a", "l", "w", "a", "r", "e">>
      W == <<"M", "A", "L", "W", "A", "R", "E">>
  IN  \E i \in 0..(Len(s) - 7) : \A k \in 1..7 : s[i + k] \in {w[k], W[k]}

ContainsMalware(str) ==
  LET s == StrTab[str]
      w == <<"m", "a", "l", "w", "a", "r", "e">>
  IN  \E i \in 0..(Len(s) - 7) : \A k \in 1..7 : s[i + k] = w[k]

SelectedVuln(v) ==
  \/ ContainsMalwareAnyCase(v.advisory.summary)
  \/ ContainsMalwareAnyCase(v.advisory.description)
  \/ ContainsMalware(v.advisory.ghsa_id)

\* C10: a vulnerability is selected iff its summary or description contains
\* "malware" in any letter case or its identifier contains "malware"; a change
\* is in the malware-hit list iff one of its vulnerabilities is selected, with
\* exactly the selected ones in their order, hits following change order.
C10_MalwareHits ==
  RetrievalSucceeded =>
     LET hits == files["malware-hits.json"].data
         hitIdx == {i \in 1..Len(changes) :
                      \E v \in 1..Len(changes[i].vulnerabilities) :
                         SelectedVuln(changes[i].vulnerabilities[v])}
         nth(j) == CHOOSE i \in hitIdx : Cardinality({m \in hitIdx : m <= i}) = j
     IN  /\ Len(hits) = Cardinality(hitIdx)
         /\ \A j \in 1..Len(hits) :
               /\ hits[j].name = changes[nth(j)].name
               /\ hits[j].version = changes[nth(j)].version
               /\ hits[j].vulnerabilities =
                     SelectSeq(changes[nth(j)].vulnerabilities, SelectedVuln)
               /\ \A v \in 1..Len(hits[j].vulnerabilities) :
                     hits[j].vulnerabilities[v].advisory.summary # "Denial of service"
         /\ \A i \in 1..Len(changes) :
               (\E v \in 1..Len(changes[i].vulnerabilities) :
                   changes[i].vulnerabilities[v].advisory.summary = "Malware: backdoor")
                 => i \in hitIdx

C10_Witness ==
  /\ RetrievalSucceeded
  /\ \E j \in 1..Len(files["malware-hits.json"].data) :
        files["malware-hits.json"].data[j].vulnerabilities = <<vBackdoor, vPayload>>
  /\ \E i \in 1..Len(changes) : changes[i].vulnerabilities = <<vUpperId>>
  /\ \E i \in 1..Len(changes) : changes[i].vulnerabilities = <<vLabelled, vDos>>
  /\ Len(files["malware-hits.json"].data) < Len(changes)

\* getDependencyChanges resolved: the token and the repository environment
\* were there and no request failed.
RetrievalResolved ==
  rv_pc = "exited" /\ token /\ envOk /\ ~RequestFailed

\* C11: after a successful retrieval the retriever exits 1 iff the malware-hit
\* list is non-empty and warn-only is off, and 0 otherwise; in each case
\* changed.json and malware-hits.json have both been written by then.
C11_ExitOneIffHitsAndNotWarnOnly ==
  RetrievalResolved =>
     /\ files["changed.json"] = Json(changedDepsOf(changes))
     /\ files["malware-hits.json"].kind = "json"
     /\ LET anyHit == \E i \in 1..Len(changes) :
                         \E v \in 1..Len(changes[i].vulnerabilities) :
                            SelectedVuln(changes[i].vulnerabilities[v])
        IN  /\ anyHit <=> Len(files["malware-hits.json"].data) > 0
            /\ rv_exit = IF anyHit /\ ~warnOnly THEN 1 ELSE 0

C11_Witness ==
  /\ RetrievalResolved /\ warnOnly /\ rv_exit = 0
  /\ Len(files["malware-hits.json"].data) > 0
  /\ Len(files["changed.json"].data) > Len(files["malware-hits.json"].data)

\* check-guarddog could read and parse the change list it was given.
GdChangedReadable == files["changed.json"].kind = "json"

BatchSizes == [b \in 1..Len(batches) |-> Len(batches[b])]

\* C12: T scan tasks run as ceil(T/8) batches that are consecutive slices of
\* the task queue: every batch but the last has 8 tasks, the last has
\* T - 8*(ceil(T/8)-1); 17 tasks run as batches of 8, 8 and 1.
C12_BatchesAreSlicesOfEight ==
  gd_pc = "exited" =>
     LET T == Len(allScanTasks)
         n == Ceil(T, 8)
     IN  /\ Len(batches) = n
         /\ \A b \in 1..(n - 1) : Len(batches[b]) = 8
         /\ n > 0 => Len(batches[n]) = T - 8 * (n - 1)
         /\ \A b \in 1..Len(batches) : \A k \in 1..Len(batches[b]) :
               batches[b][k] = allScanTasks[8 * (b - 1) + k]
         /\ scanned = allScanTasks
         /\ T = 17 => BatchSizes = <<8, 8, 1>>

C12_Witness ==
  /\ gd_pc = "exited" /\ Len(allScanTasks) = 17
  /\ BatchSizes = <<8, 8, 1>> /\ Len(scanned) = 17

\* The current batch has been mapped and every scan of it has settled.
BatchSettled ==
  /\ gd_pc = "batch" /\ inFlight = 0
  /\ Len(batchResults) = Len(slice(allScanTasks, gd_i, gd_i + batchSize))

\* C13: within a batch the scans run concurrently: a batch of k tasks
\* (2 <= k <= 8) has had k scans in flight at once by the time it has
\* settled, and never are more than 8 scans in flight.
C13_BatchRunsConcurrently ==
  /\ inFlight <= 8
  /\ (BatchSettled /\ Len(batchResults) >= 2) => peakInFlight = Len(batchResults)

\* A scan result that carries an issue: a non-empty errors mapping or a
\* results entry that is not null, {} or [].
CarriesIssue(r) ==
  \/ Len(r.errors) > 0
  \/ \E e \in 1..Len(r.results) :
        r.results[e].value \notin {"null", "emptyObject", "emptyArray"}

\* C14: with guarddog-fail on, check-guarddog exits 1 exactly when at least
\* one scan result carries an issue; results without an issue do not fail
\* the job; with guarddog-fail off it exits 0 whatever was found.
C14_FailsOnlyOnIssues ==
  (gd_pc = "exited" /\ GdChangedReadable) =>
     IF gd_fail
     THEN (gd_exit = 1) <=> \E k \in 1..Len(allResults) : CarriesIssue(allResults[k])
     ELSE gd_exit = 0

InstallWarned == "warn: Failed to install GuardDog via pip, skipping scan" \in gd_log

\* C15 as stated: when the scanner cannot be installed (pip fails) or cannot
\* be invoked at all (every invocation fails), no scan is dispatched, [] is
\* written, a warning is logged and the exit status is 0, for every change
\* list and also with guarddog-fail.
C15_UnavailableScannerDegrades ==
  (gd_pc = "exited" /\ GdChangedReadable
     /\ ((~gd_testEnv /\ ~gd_installOk) \/ scanner = "down")) =>
       /\ scanned = <<>>
       /\ files["guarddog.json"] = Json(<<>>)
       /\ InstallWarned
       /\ gd_exit = 0

\* C15 amended: when pip cannot install the scanner, no scan is dispatched,
\* [] is written and the exit status is 0, also with guarddog-fail, and the
\* warning is logged unless the change list is empty (installation is then not
\* attempted). When the scanner is installed but every invocation fails, each
\* task is still attempted, nothing is warned, [] is written and the exit
\* status is 0.
C15_InstallFailureDegrades ==
  (gd_pc = "exited" /\ GdChangedReadable) =>
     /\ (~gd_testEnv /\ ~gd_installOk) =>
           /\ scanned = <<>>
           /\ files["guarddog.json"] = Json(<<>>)
           /\ gd_exit = 0
           /\ InstallWarned <=> Len(files["changed.json"].data) > 0
     /\ (~gd_testEnv /\ gd_installOk /\ scanner = "down") =>
           /\ scanned = allScanTasks
           /\ files["guarddog.json"] = Json(<<>>)
           /\ gd_exit = 0
           /\ ~InstallWarned

C15_Witness ==
  /\ gd_pc = "exited" /\ ~gd_testEnv /\ ~gd_installOk /\ gd_fail
  /\ GdChangedReadable
  /\ \E i \in 1..Len(files["changed.json"].data) :
        files["changed.json"].data[i] = Dep("left-pad", "1.0.0", "npm")
  /\ InstallWarned /\ gd_exit = 0 /\ files["guarddog.json"] = Json(<<>>)

HasTypesPrefix(name) ==
  LET n == StrTab[name]
  IN  Len(n) >= 7 /\ SubSeq(n, 1, 7) = <<"@", "t", "y", "p", "e", "s", "/">>

\* A change the scanner has a mapping for and that is not an npm
\* type-definition package.
Scannable(dep) ==
  /\ dep.ecosystem \in {"npm", "pip", "go", "actions"}
  /\ ~(dep.ecosystem = "npm" /\ HasTypesPrefix(dep.name))

TaskOf(dep) ==
  [ecosystem |-> CASE dep.ecosystem = "npm" -> "npm"
                   [] dep.ecosystem = "pip" -> "pypi"
                   [] dep.ecosystem = "go" -> "go"
                   [] dep.ecosystem = "actions" -> "github-action",
   name |-> dep.name, version |-> dep.version]

\* C16: a scan is only ever dispatched for a change of a mapped ecosystem
\* that is not an npm "@types/" package; the other changes are dropped
\* without error, every scannable change becomes a task, and with no task
\* left [] is written and the exit status is 0.
C16_OnlyScannableChangesScanned ==
  GdChangedReadable =>
     LET changed == files["changed.json"].data
         idx == {i \in 1..Len(changed) : Scannable(changed[i])}
     IN  /\ \A k \in 1..Len(scanned) :
               \E i \in idx : scanned[k] = TaskOf(changed[i])
         /\ (gd_pc = "exited" /\ installGuardDog(gd_testEnv, gd_installOk).ok) =>
               /\ Len(allScanTasks) = Cardinality(idx)
               /\ \A i \in idx : \E k \in 1..Len(scanned) : scanned[k] = TaskOf(changed[i])
               /\ Len(scanned) = Cardinality(idx)
               /\ idx = {} =>
                     /\ files["guarddog.json"] = Json(<<>>)
                     /\ gd_exit = 0

C16_Witness ==
  /\ gd_pc = "exited" /\ GdChangedReadable /\ Len(scanned) = 1
  /\ scanned[1] = TaskOf(Dep("@types/node", "1.0.0", "pip"))
  /\ \E i \in 1..Len(files["changed.json"].data) :
        files["changed.json"].data[i] = Dep("@types/node", "9.9.9", "npm")
  /\ \E i \in 1..Len(files["changed.json"].data) :
        files["changed.json"].data[i] = Dep("laravel", "1.0.0", "composer")

Summarised == ag_pc = "exited" /\ ag_summarised

\* C17: a scan result counts as a significant finding iff its errors
\* mapping is non-empty or its results mapping has a value that is not null,
\* not {} and not []; {errors:{}, results:{}} is not counted and
\* {errors:{typosquatting:...}, results:{}} is.
C17_SignificantFindings ==
  (Summarised /\ files["guarddog.json"].kind = "json") =>
     LET g == files["guarddog.json"].data
         significant == {k \in 1..Len(g) : CarriesIssue(g[k])}
     IN  /\ ag_summary.data.guarddog.packagesWithIssues = Cardinality(significant)
         /\ ag_summary.data.guarddog.totalScanned = Len(g)
         /\ \A k \in 1..Len(g) :
               /\ (g[k].errors = <<>> /\ g[k].results = <<>>) => k \notin significant
               /\ (g[k].errors = <<"typosquatting">> /\ g[k].results = <<>>)
                     => k \in significant

C17_Witness ==
  /\ Summarised /\ files["guarddog.json"].kind = "json"
  /\ Len(files["guarddog.json"].data) = 5
  /\ ag_summary.data.guarddog.packagesWithIssues = 3

AllArtifactsReadable == \A f \in ArtifactNames : files[f].kind = "json"

\* C18: the overall-issues flag is true iff the malware-hit count, the
\* exact-match count or the significant-findings count is above zero;
\* name-only matches, changes and scanned packages do not set it.
C18_OverallIssuesFlag ==
  Summarised =>
     /\ ag_summary.hasIssues <=>
           \/ ag_summary.data.dependencyReview.malwareHits > 0
           \/ ag_summary.data.ossf.findings > 0
           \/ ag_summary.data.guarddog.packagesWithIssues > 0
     /\ AllArtifactsReadable =>
           (ag_summary.hasIssues <=>
              \/ Len(files["malware-hits.json"].data) > 0
              \/ \E k \in 1..Len(files["ossf.json"].data) :
                    files["ossf.json"].data[k].type = "exact_match"
              \/ \E k \in 1..Len(files["guarddog.json"].data) :
                    CarriesIssue(files["guarddog.json"].data[k]))

C18_Witness ==
  /\ Summarised /\ AllArtifactsReadable /\ ~ag_summary.hasIssues
  /\ Len(ag_summary.data.ossf.nameOnlyMatches) = 2
  /\ ag_summary.data.dependencyReview.totalChanges = 2
  /\ ag_summary.data.guarddog.totalScanned = 1

\* C19: with no artifact file at all the aggregator still produces its
\* summary: every count is zero, the overall status is "All Checks Passed"
\* and the exit status is 0.
C19_NoArtifactsZeroSummary ==
  (ag_pc = "exited" /\ ag_enable /\ files = NoFiles) =>
     /\ ag_summarised
     /\ ag_exit = 0
     /\ ~ag_summary.hasIssues
     /\ ag_summary.data.dependencyReview =
           [totalChanges |-> 0, addedUpdated |-> 0, malwareHits |-> 0]
     /\ ag_summary.data.ossf.findings = 0
     /\ ag_summary.data.ossf.packages = <<>>
     /\ ag_summary.data.ossf.nameOnlyMatches = <<>>
     /\ ag_summary.data.guarddog =
           [totalScanned |-> 0, findings |-> 0, packagesWithIssues |-> 0]

C19_Witness ==
  /\ ag_pc = "exited" /\ ag_enable /\ files = NoFiles
  /\ ag_summarised /\ ~ag_summary.hasIssues /\ ag_exit = 0

\* The files whose presence marks an ecosystem.
MarkerFiles(name) ==
  CASE name = "Node.js" -> {"package.json"}
    [] name = "Python" -> {"requirements.txt", "poetry.lock", "Pipfile.lock", "pyproject.toml"}
    [] name = "Rust" -> {"Cargo.toml"}
    [] name = "Go" -> {"go.mod"}
    [] name = "Ruby" -> {"Gemfile"}
    [] name = "PHP" -> {"composer.json"}

HasMarkerFile(name) == MarkerFiles(name) \cap fi_present # {}

ValidatedNames == [k \in 1..Len(fi_validated) |-> fi_validated[k].name]

\* C20: frozen-install exits 0 iff at least one ecosystem is detected and the
\* validation of every detected ecosystem succeeds, and 1 otherwise; every
\* detected ecosystem is validated, in the order Node.js, Python, Rust, Go,
\* Ruby, PHP, whatever the outcome of the earlier validations.
C20_FrozenInstallExit ==
  fi_pc = "exited" =>
     LET detected == SelectSeq(<<"Node.js", "Python", "Rust", "Go", "Ruby", "PHP">>,
                               HasMarkerFile)
     IN  /\ fi_exit \in {0, 1}
         /\ fi_workdirOk => ValidatedNames = detected
         /\ (fi_exit = 0) <=>
               /\ fi_workdirOk
               /\ Len(detected) > 0
               /\ \A k \in 1..Len(fi_validated) : fi_validated[k].success

C20_Witness ==
  /\ fi_pc = "exited" /\ fi_exit = 1
  /\ ValidatedNames = <<"Node.js", "Python", "Rust", "Go", "Ruby", "PHP">>
  /\ ~fi_validated[1].success
  /\ \A k \in 2..6 : fi_validated[k].success

\* C21: whenever a changed version of a name is listed as affected in the
\* consulted advisory document, check-ossf reports an exact match for that
\* name and version, also when the name occurs with several versions.
C21_AnyListedVersionIsExactMatch ==
  (os_pc = "exited" /\ ChangedReadable) =>
     \A i \in 1..Len(files["changed.json"].data) :
        LET c == files["changed.json"].data[i]
        IN  (/\ c.ecosystem \in DOMAIN OSSF_ECOSYSTEM_MAP
             /\ ConsultedAdvisoryLists(OSSF_ECOSYSTEM_MAP[c.ecosystem], c.name, c.version))
              => ExactReported(OSSF_ECOSYSTEM_MAP[c.ecosystem], c.name, c.version)

\* The version of the last change of the name in the ecosystem directory.
LastChangedVersion(dir, name) ==
  LET changed == files["changed.json"].data
      mine == {i \in 1..Len(changed) :
                 /\ changed[i].ecosystem \in DOMAIN OSSF_ECOSYSTEM_MAP
                 /\ OSSF_ECOSYSTEM_MAP[changed[i].ecosystem] = dir
                 /\ changed[i].name = name}
  IN  changed[CHOOSE i \in mine : \A j \in mine : j <= i].version

\* The first advisory document of the package directory that can be read and
\* parsed lists the version.
FirstReadableLists(dir, name, version) ==
  /\ corpus[dir].kind = "dir"
  /\ \E e \in 1..Len(corpus[dir].entries) :
        LET d == corpus[dir].entries[e]
            readable(f) == d.files[f].json /\ d.files[f].doc.parses
        IN  /\ d.name = name /\ d.isDir /\ d.listable
            /\ \E f \in 1..Len(d.files) :
                  /\ readable(f)
                  /\ \A h \in 1..(f - 1) : ~readable(h)
                  /\ \E a \in 1..Len(d.files[f].doc.affected) :
                        LET aff == d.files[f].doc.affected[a]
                        IN  /\ aff.package = name /\ aff.hasVersions
                            /\ \E v \in 1..Len(aff.versions) : aff.versions[v] = version

\* C22: per matched package directory exactly one advisory document is
\* consulted, the first readable one: an unreadable or unparseable document
\* is skipped, later documents are not consulted, the run does not fail and
\* the name match for the package is still reported.
C22_FirstReadableDocument ==
  (os_pc = "exited" /\ ChangedReadable) =>
     /\ os_exit \in {0, 1}
     /\ "uncaught exception" \notin os_log
     /\ \A i \in 1..Len(files["changed.json"].data) :
           LET c == files["changed.json"].data[i]
           IN  c.ecosystem \in DOMAIN OSSF_ECOSYSTEM_MAP =>
                 LET dir == OSSF_ECOSYSTEM_MAP[c.ecosystem]
                     v == LastChangedVersion(dir, c.name)
                 IN  /\ CorpusHasDir(dir, c.name) => NameReported(dir, c.name)
                     /\ ExactReported(dir, c.name, v) <=> FirstReadableLists(dir, c.name, v)

\* C23: every exact match comes with a name match for the same ecosystem and
\* name, in the matcher's lists and in the items it writes; the two kinds of
\* finding are separate items.
C23_ExactImpliesName ==
  /\ \A g \in 1..Len(exactMatches) : \A k \in 1..Len(exactMatches[g].packages) :
        NameReported(exactMatches[g].ecosystem, exactMatches[g].packages[k].name)
  /\ (os_pc = "exited" /\ files["ossf.json"].kind = "json") =>
        LET out == files["ossf.json"].data
        IN  \A k \in 1..Len(out) :
               out[k].type = "exact_match" =>
                  \E m \in 1..Len(out) :
                     /\ out[m].type = "name_match"
                     /\ out[m].name = out[k].name
                     /\ out[m].ecosystem = out[k].ecosystem

C23_Witness ==
  /\ os_pc = "exited" /\ files["ossf.json"].kind = "json"
  /\ Len(exactMatches) > 0
  /\ \E k \in 1..Len(files["ossf.json"].data) :
        files["ossf.json"].data[k].type = "exact_match"
  /\ Len(files["ossf.json"].data) >= 3

\* The batch a task of the queue belongs to, by its position k = 1, 2, ...
BatchOf(k) == (k - 1) \div maxConcurrency

\* The number of started scans that have settled.
SettledCount ==
  (IF gd_i < Len(allScanTasks) THEN gd_i ELSE Len(allScanTasks)) + Len(batchResults)

\* C24: scans start in queue order, batch by batch: while a task of a batch
\* is unsettled no task of a later batch has started, and the tasks in flight
\* all belong to one batch.
C24_BatchesDoNotOverlap ==
  gd_pc \in {"batch", "exited"} =>
     /\ Len(scanned) <= Len(allScanTasks)
     /\ \A k \in 1..Len(scanned) : scanned[k] = allScanTasks[k]
     /\ SettledCount <= Len(scanned)
     /\ \A j \in (SettledCount + 1)..Len(scanned) :
           \A k \in 1..Len(scanned) : BatchOf(k) <= BatchOf(j)
     /\ inFlight = Len(scanned) - SettledCount

C24_Witness ==
  /\ gd_pc = "batch"
  /\ Len(batches) >= 1
  /\ inFlight > 0
  /\ Len(scanned) > maxConcurrency
  /\ Len(scanned) < Len(allScanTasks)

C25_IsResult(r) == r.kind = "result"

\* C25: the result accumulator changes only when the program resumes after a
\* batch of which every task has settled, with no scan in flight, and each
\* such resumption appends once the results of that batch that are not null.
C25_AppendOnlyAfterBatchSettles ==
  [][(allResults' # allResults \/ batches' # batches) =>
        /\ inFlight = 0
        /\ Len(batchResults) =
              Len(slice(allScanTasks, gd_i, gd_i + maxConcurrency))
        /\ Len(batchResults) > 0
        /\ allResults' = allResults \o SelectSeq(batchResults, C25_IsResult)
        /\ Len(batches') = Len(batches) + 1
        /\ batchResults' = <<>>]_vars

C25_Witness ==
  /\ gd_pc = "batch"
  /\ Len(batches) = 1
  /\ Len(allResults) > 0
  /\ Len(allResults) < maxConcurrency
  /\ inFlight > 0

\* What each task of the queue gives, in queue order, without the nulls.
ResultsInQueueOrder ==
  SelectSeq([k \in 1..Len(allScanTasks) |->
               scanPackage(scanner, allScanTasks[k].ecosystem,
                           allScanTasks[k].name, allScanTasks[k].version)],
            C25_IsResult)

\* C26: when the scheduler has finished, the result sequence and the written
\* artifact are the results of the tasks that produced one, in task-queue
\* order.
C26_ResultsInQueueOrder ==
  (gd_pc = "exited" /\ Len(allScanTasks) > 0) =>
     /\ allResults = ResultsInQueueOrder
     /\ files["guarddog.json"] = Json(ResultsInQueueOrder)

C26_Witness ==
  /\ gd_pc = "exited"
  /\ Len(batches) >= 2
  /\ Len(allResults) >= 2
  /\ Len(allResults) < Len(allScanTasks)
  /\ \E k \in 1..(Len(allResults) - 1) : allResults[k] # allResults[k + 1]

\* The scanner's output for a task could be parsed.
ScanParsed(t) == guarddogRun(scanner, t.ecosystem, t.name, t.version).kind = "json"

\* C27: a scan that exits non-zero, prints nothing or prints something that
\* does not parse gives no result and is dropped: the other tasks of its
\* batch and of later batches still run, and the exit status is non-zero only
\* when failing is enabled and some scan gave a result.
C27_FailedScanIsDropped ==
  (gd_pc = "exited" /\ Len(allScanTasks) > 0) =>
     /\ scanned = allScanTasks
     /\ Len(allResults) =
           Cardinality({k \in 1..Len(allScanTasks) : ScanParsed(allScanTasks[k])})
     /\ \A r \in 1..Len(allResults) :
           /\ allResults[r].kind = "result"
           /\ \E k \in 1..Len(allScanTasks) :
                 /\ ScanParsed(allScanTasks[k])
                 /\ allScanTasks[k].name = allResults[r].package
                 /\ allScanTasks[k].ecosystem = allResults[r].ecosystem
     /\ "GuardDog scan failed" \notin gd_log
     /\ gd_exit \in {0, 1}
     /\ gd_exit = 1 => (gd_fail /\ Len(allResults) > 0)
     /\ Len(allResults) = 0 => gd_exit = 0

C27_Witness ==
  /\ gd_pc = "exited"
  /\ gd_exit = 0
  /\ Len(batches) >= 2
  /\ \E k \in 1..Len(allScanTasks) :
        /\ ~ScanParsed(allScanTasks[k])
        /\ guarddogRun(scanner, allScanTasks[k].ecosystem, allScanTasks[k].name,
                       allScanTasks[k].version).kind = "garbage"
        /\ \E j \in (k + 1)..Len(allScanTasks) :
              /\ ScanParsed(allScanTasks[j])
              /\ BatchOf(j) > BatchOf(k)
  /\ Len(allResults) > 0

\* C29: if every scan that is started settles, the scheduler finishes, having
\* started every task of the queue and dropped none, and the artifact is
\* written when it exits, also with exit status 1; while a scan is unsettled
\* nothing else happens: no further scan starts, no batch is completed and
\* the artifact is not written.
C29_SchedulerFinishes ==
  /\ (gd_pc = "batch") ~> (gd_pc = "exited")
  /\ []((gd_pc = "exited" /\ Len(allScanTasks) > 0) =>
          /\ scanned = allScanTasks
          /\ Len(batches) * maxConcurrency >= Len(allScanTasks)
          /\ files["guarddog.json"] = Json(allResults))
  /\ [](gd_pc = "batch" =>
          /\ files["guarddog.json"].kind = "missing"
          /\ Len(scanned) = SettledCount + inFlight)
  /\ [][inFlight > 0 =>
          /\ inFlight' = inFlight - 1
          /\ Len(batchResults') = Len(batchResults) + 1
          /\ UNCHANGED <<scanned, batches, allResults, files, gd_pc, gd_exit>>]_vars

C29_Witness ==
  /\ gd_pc = "exited"
  /\ gd_exit = 1
  /\ Len(batches) >= 2
  /\ scanned = allScanTasks
  /\ files["guarddog.json"] = Json(allResults)

\* C30: the scanner is run exactly once for every distinct scannable
\* (ecosystem, name, version) of the change set, and the task queue lists the
\* tasks grouped by scanner ecosystem in the order the ecosystems first
\* appear, in change-set order within an ecosystem.
C30_EachDistinctTripleScannedOnce ==
  (GdChangedReadable /\ gd_pc = "exited" /\ Len(allScanTasks) > 0) =>
     LET changed == files["changed.json"].data
         idx == {i \in 1..Len(changed) : Scannable(changed[i])}
         first(e) == CHOOSE i \in idx :
                        /\ TaskOf(changed[i]).ecosystem = e
                        /\ \A j \in idx : TaskOf(changed[j]).ecosystem = e => i <= j
     IN  /\ \A i \in idx :
               Cardinality({k \in 1..Len(scanned) : scanned[k] = TaskOf(changed[i])}) = 1
         /\ \A k \in 1..Len(scanned) : \E i \in idx : scanned[k] = TaskOf(changed[i])
         /\ \A j, k \in 1..Len(allScanTasks) :
               (j < k /\ allScanTasks[j].ecosystem # allScanTasks[k].ecosystem) =>
                  first(allScanTasks[j].ecosystem) < first(allScanTasks[k].ecosystem)

\* The artifact files with only the named one in place.
OnlyArtifact(f) == [NoFiles EXCEPT ![f] = files[f]]

\* C28: each detector's counts in the summary depend on its own artifact
\* only: the malware-hit count is the length of the list in malware-hits.json
\* (0 without the file) whether or not changed.json is present, and the OSSF
\* and GuardDog counts are those of ossf.json and guarddog.json alone.
C28_CountsDependOnOwnArtifact ==
  (ag_pc = "exited" /\ ag_summarised) =>
     /\ files["malware-hits.json"].kind = "json" =>
           ag_summary.data.dependencyReview.malwareHits =
              Len(files["malware-hits.json"].data)
     /\ files["malware-hits.json"].kind = "missing" =>
           ag_summary.data.dependencyReview.malwareHits = 0
     /\ ag_summary.data.ossf = readOSSFResults(OnlyArtifact("ossf.json"))
     /\ ag_summary.data.guarddog = readGuardDogResults(OnlyArtifact("guarddog.json"))

====
